---- MODULE Spec2Model ----
(***************************************************************************)
(* Knowledge store of rust_agent: the SQLite tables concepts, patterns and *)
(* errors, the table commands, the two FTS5 external-content indexes       *)
(* concepts_fts and patterns_fts with their triggers                       *)
(* (src/knowledge/database.rs), the read operations of                     *)
(* src/knowledge/query.rs, the loader of src/knowledge/loader.rs and the   *)
(* fetcher of src/tools/knowledge_fetcher.rs.                              *)
(*                                                                         *)
(* A text column is a sequence of words and separator characters; a JSON   *)
(* column is the sequence of JSON tokens serde_json writes.  An FTS5 index *)
(* is a function from the rowids it holds to the set of terms posted under *)
(* that rowid.                                                             *)
(***************************************************************************)
EXTENDS Integers, Sequences, FiniteSets, TLC

VARIABLES
    concepts,       \* rows of table concepts
    concepts_fts,   \* FTS5 index over concepts: rowid -> set of terms
    patterns,       \* rows of table patterns
    patterns_fts,   \* FTS5 index over patterns: rowid -> set of terms
    errors,         \* rows of table errors
    schema,         \* the tables, indexes and triggers of the database file
    last_concept,   \* history: id -> value of the latest store_concept call for it
    last_pattern,   \* history: id -> value of the latest store_pattern call for it
    last_error,     \* history: error_code -> value of the latest store_error call
    prev,           \* history: the latest store call and the store before it
    handles,        \* KnowledgeDatabase handle -> its connection (0: not created)
    mutex,          \* connection -> the thread that holds its Mutex, or "free"
    pending,        \* connection -> the uncommitted effects of its running statement
    pc,             \* thread -> its position in the call it runs
    call,           \* thread -> the call it runs
    ret,            \* thread -> the result of its call and the store it looked at
    calls,          \* number of calls started by the threads
    commands,       \* rows of table commands
    command_ids,    \* history: the ids returned by the store_command calls, in order
    loads,          \* history: the load_all_from_directory calls and their results
    slug,           \* the latest slugify call: its input, its result and the slug of that
    response        \* the result of the latest KnowledgeFetcher::fetch

storeVars == <<concepts, concepts_fts, patterns, patterns_fts, errors, schema>>
histVars == <<last_concept, last_pattern, last_error, prev>>
threadVars == <<handles, mutex, pending, pc, call, ret, calls>>
cmdVars == <<commands, command_ids>>
loaderVars == <<loads, slug>>
vars == <<storeVars, histVars, threadVars, cmdVars, loaderVars, response>>

(***************************************************************************)
(* Bounds                                                                  *)
(***************************************************************************)
MaxConceptRowid == 3
MaxPatternRowid == 2
MaxCalls == 3

Range(s) == {s[i] : i \in 1..Len(s)}

SetMax(S) == CHOOSE m \in S : \A x \in S : x <= m

SetMin(S) == CHOOSE m \in S : \A x \in S : m <= x

None == <<"None">>
Some(x) == <<"Some", x>>
Ok(x) == <<"Ok", x>>
Err(e) == <<"Err", e>>

(***************************************************************************)
(* serde_json::to_string / serde_json::from_str on the list columns        *)
(***************************************************************************)
P(c) == <<"punct", c>>
S(s) == <<"str", s>>

RECURSIVE JsonItems(_)
JsonItems(items) ==
    IF items = <<>> THEN <<>>
    ELSE IF Len(items) = 1 THEN items[1]
    ELSE items[1] \o <<P(",")>> \o JsonItems(Tail(items))

JsonArray(items) == <<P("[")>> \o JsonItems(items) \o <<P("]")>>

\* Vec<String> -> JSON text
to_string_strs(l) == JsonArray([i \in 1..Len(l) |-> <<S(l[i])>>])

\* CodeExample -> JSON object, fields in declaration order
JsonExample(e) ==
    << P("{"), S("title"), P(":"), S(e.title), P(","),
       S("code"), P(":"), S(e.code), P(","),
       S("explanation"), P(":"), S(e.explanation), P("}") >>

\* Vec<CodeExample> -> JSON text
to_string_examples(l) == JsonArray([i \in 1..Len(l) |-> JsonExample(l[i])])

IsArray(b) == Len(b) >= 2 /\ b[1] = P("[") /\ b[Len(b)] = P("]")

Inner(b) == SubSeq(b, 2, Len(b) - 1)

IsOk(r) == r[1] = "Ok"

\* a parser that returns the elements in reverse order
RECURSIVE ParseStrs_Reversed(_)
ParseStrs_Reversed(b) ==
    IF b = <<>> THEN Err("json")
    ELSE IF b[1][1] # "str" THEN Err("json")
    ELSE IF Len(b) = 1 THEN Ok(<<b[1][2]>>)
    ELSE IF b[2] # P(",") THEN Err("json")
    ELSE LET rest == ParseStrs_Reversed(SubSeq(b, 3, Len(b)))
         IN IF IsOk(rest) THEN Ok(rest[2] \o <<b[1][2]>>) ELSE rest

\* parse the elements of an array of strings
RECURSIVE ParseStrs(_)
ParseStrs(b) ==
    IF b = <<>> THEN Err("json")
    ELSE IF b[1][1] # "str" THEN Err("json")
    ELSE IF Len(b) = 1 THEN Ok(<<b[1][2]>>)
    ELSE IF b[2] # P(",") THEN Err("json")
    ELSE LET rest == ParseStrs(SubSeq(b, 3, Len(b)))
         IN IF IsOk(rest) THEN Ok(<<b[1][2]>> \o rest[2]) ELSE rest

\* JSON text -> Result<Vec<String>>
from_str_strs(b) ==
    IF ~IsArray(b) THEN Err("json")
    ELSE IF Len(b) = 2 THEN Ok(<<>>)
    ELSE ParseStrs(Inner(b))

IsExampleAt(b, i) ==
    /\ Len(b) >= i + 12
    /\ b[i] = P("{") /\ b[i+1] = S("title") /\ b[i+2] = P(":") /\ b[i+3][1] = "str"
    /\ b[i+4] = P(",") /\ b[i+5] = S("code") /\ b[i+6] = P(":") /\ b[i+7][1] = "str"
    /\ b[i+8] = P(",") /\ b[i+9] = S("explanation") /\ b[i+10] = P(":")
    /\ b[i+11][1] = "str" /\ b[i+12] = P("}")

ExampleAt(b, i) == [title |-> b[i+3][2], code |-> b[i+7][2], explanation |-> b[i+11][2]]

\* parse the elements of an array of CodeExample objects
RECURSIVE ParseExamples(_)
ParseExamples(b) ==
    IF ~IsExampleAt(b, 1) THEN Err("json")
    ELSE IF Len(b) = 13 THEN Ok(<<ExampleAt(b, 1)>>)
    ELSE IF b[14] # P(",") THEN Err("json")
    ELSE LET rest == ParseExamples(SubSeq(b, 15, Len(b)))
         IN IF IsOk(rest) THEN Ok(<<ExampleAt(b, 1)>> \o rest[2]) ELSE rest

\* JSON text -> Result<Vec<CodeExample>>
from_str_examples(b) ==
    IF ~IsArray(b) THEN Err("json")
    ELSE IF Len(b) = 2 THEN Ok(<<>>)
    ELSE ParseExamples(Inner(b))

(***************************************************************************)
(* Input values                                                            *)
(***************************************************************************)
ConceptIds == {"c1", "c2"}
PatternIds == {"p1", "p2"}
ErrorCodes == {"E0382", "E0499"}

Example1 == [title |-> "basic", code |-> "let", explanation |-> "moved"]

ConceptBodies ==
    { [topic |-> <<"own">>, title |-> <<"move", "sem">>, explanation |-> <<"how">>,
       code_examples |-> <<Example1>>, common_mistakes |-> <<"use">>,
       related_concepts |-> <<"borrow">>, tags |-> <<"own", "mem">>],
      [topic |-> <<"bool">>, title |-> <<"NOT", "sem">>, explanation |-> <<"neg">>,
       code_examples |-> <<>>, common_mistakes |-> <<>>,
       related_concepts |-> <<>>, tags |-> <<>>] }

Concept(id, b) ==
    [id |-> id, topic |-> b.topic, title |-> b.title, explanation |-> b.explanation,
     code_examples |-> b.code_examples, common_mistakes |-> b.common_mistakes,
     related_concepts |-> b.related_concepts, tags |-> b.tags]

ConceptInputs == {Concept(id, b) : id \in ConceptIds, b \in ConceptBodies}

PatternBodies ==
    { [name |-> <<"builder">>, description |-> <<"step">>, template |-> <<"impl">>,
       when_to_use |-> <<"many">>, when_not_to_use |-> <<"few">>, examples |-> <<>>],
      [name |-> <<"newtype">>, description |-> <<"wrap">>, template |-> <<"struct">>,
       when_to_use |-> <<"many">>, when_not_to_use |-> <<>>, examples |-> <<Example1>>] }

Pattern(id, b) ==
    [id |-> id, name |-> b.name, description |-> b.description, template |-> b.template,
     when_to_use |-> b.when_to_use, when_not_to_use |-> b.when_not_to_use,
     examples |-> b.examples]

PatternInputs == {Pattern(id, b) : id \in PatternIds, b \in PatternBodies}

ErrorBodies ==
    { [title |-> <<"moved">>, explanation |-> <<"use">>, example_bad |-> <<"let">>,
       example_good |-> <<"clone">>, fix_strategies |-> <<"clone", "ref">>],
      [title |-> <<"borrowed">>, explanation |-> <<"twice">>, example_bad |-> <<"mut">>,
       example_good |-> <<"scope">>, fix_strategies |-> <<>>] }

KError(code, b) ==
    [error_code |-> code, title |-> b.title, explanation |-> b.explanation,
     example_bad |-> b.example_bad, example_good |-> b.example_good,
     fix_strategies |-> b.fix_strategies]

ErrorInputs ==
    {e \in {KError(code, b) : code \in ErrorCodes, b \in ErrorBodies} :
        e.error_code = "E0382" \/ e.fix_strategies = <<>>}

\* the words of the text columns and of the tags of the input values
Words == {"own", "move", "sem", "how", "mem", "bool", "NOT", "neg",
          "builder", "step", "many", "newtype", "wrap"}

(***************************************************************************)
(* SQLite: rowid tables, INSERT OR REPLACE, FTS5 external-content indexes  *)
(***************************************************************************)
Rowids(table) == {r.rowid : r \in table}

\* the rowid SQLite gives a row inserted without one: one more than the largest rowid
\* in the table, taken before REPLACE deletes the conflicting row
NewRowid(table) == IF table = {} THEN 1 ELSE SetMax(Rowids(table)) + 1

\* rows that conflict with a new row on the primary key column
Conflicts(table, key, value) == {r \in table : r[key] = value}

\* PRAGMA recursive_triggers is never issued on the connection: it keeps SQLite's
\* default, under which the rows REPLACE deletes fire no delete trigger
recursive_triggers == FALSE

\* the characters that are not alphanumeric
Separators == {" ", "-", "_", ":", "!", "\n"}

\* the words that hold upper-case letters, with their lower-case form
LowerCase ==
    [w \in {"NOT", "Own", "Ship", "Move", "Sem", "Cargo", "Rustup", "Build", "Test",
            "Creational", "Builder", "Rules", "Key", "Points", "Unnamed", "Unknown"} |->
        CASE w = "NOT" -> "not" [] w = "Own" -> "own" [] w = "Ship" -> "ship"
          [] w = "Move" -> "move" [] w = "Sem" -> "sem" [] w = "Cargo" -> "cargo"
          [] w = "Rustup" -> "rustup" [] w = "Build" -> "build" [] w = "Test" -> "test"
          [] w = "Creational" -> "creational" [] w = "Builder" -> "builder"
          [] w = "Rules" -> "rules" [] w = "Key" -> "key" [] w = "Points" -> "points"
          [] w = "Unnamed" -> "unnamed" [] w = "Unknown" -> "unknown"]

\* the strings of more than one word, as their words and separator characters
Spelling ==
    [s \in {"Own Ship", "Move Sem", "move-sem", "Cargo Build", "Rustup Test",
            "Creational Builder", "cargo build", "release - fast"} |->
        CASE s = "Own Ship" -> <<"Own", " ", "Ship">>
          [] s = "Move Sem" -> <<"Move", " ", "Sem">>
          [] s = "move-sem" -> <<"move", "-", "sem">>
          [] s = "Cargo Build" -> <<"Cargo", " ", "Build">>
          [] s = "Rustup Test" -> <<"Rustup", " ", "Test">>
          [] s = "Creational Builder" -> <<"Creational", " ", "Builder">>
          [] s = "cargo build" -> <<"cargo", " ", "build">>
          [] s = "release - fast" -> <<"release", " ", "-", " ", "fast">>]

\* a string as the sequence of its words and separator characters
Chars(s) == IF s \in DOMAIN Spelling THEN Spelling[s] ELSE IF s = "" THEN <<>> ELSE <<s>>

\* unicode61 tokenizer: terms are case-folded
Fold(w) == IF w \in DOMAIN LowerCase THEN LowerCase[w] ELSE w

\* unicode61 tokenizer: the separator characters end a token and are no tokens
TextTerms(text) == {Fold(w) : w \in Range(text) \ Separators}

JsonTerms(blob) ==
    UNION {TextTerms(Chars(t[2])) : t \in {x \in Range(blob) : x[1] = "str"}}

\* INSERT INTO fts(rowid, ...): post the terms under rowid
FtsInsert(fts, rowid, terms) ==
    [r \in DOMAIN fts \cup {rowid} |->
        IF r = rowid
        THEN (IF r \in DOMAIN fts THEN fts[r] ELSE {}) \cup terms
        ELSE fts[r]]

\* INSERT INTO fts(fts, rowid, ...) VALUES('delete', ...): remove the entry of rowid
FtsDelete(fts, rowid, terms) ==
    [r \in DOMAIN fts \ {rowid} |-> IF r = rowid THEN fts[r] \ terms ELSE fts[r]]

\* an FTS5 query string that is a single bareword: AND, OR and NOT are operators of
\* the query syntax and a query made of one of them alone is a syntax error
Fts5Reserved == {"AND", "OR", "NOT"}

\* rowids whose entry matches the query, or an error
Fts5Match(fts, query) ==
    IF query \in Fts5Reserved THEN Err("fts5")
    ELSE Ok({r \in DOMAIN fts : Fold(query) \in fts[r]})

\* the sequence of the elements of a set of rows by ascending rowid
RECURSIVE ByRowid(_)
ByRowid(rows) ==
    IF rows = {} THEN <<>>
    ELSE LET first == CHOOSE r \in rows : \A o \in rows : r.rowid <= o.rowid
         IN <<first>> \o ByRowid(rows \ {first})

\* a LIMIT that lets one more row through
Limit_OneMore(seq, n) == SubSeq(seq, 1, IF Len(seq) < n + 1 THEN Len(seq) ELSE n + 1)

\* LIMIT n
Limit(seq, n) == SubSeq(seq, 1, IF Len(seq) < n THEN Len(seq) ELSE n)

(***************************************************************************)
(* Table concepts and its index                                            *)
(***************************************************************************)
ConceptRow(rowid, c) ==
    [rowid |-> rowid, id |-> c.id, topic |-> c.topic, title |-> c.title,
     explanation |-> c.explanation,
     code_examples |-> to_string_examples(c.code_examples),
     common_mistakes |-> to_string_strs(c.common_mistakes),
     related_concepts |-> to_string_strs(c.related_concepts),
     tags |-> to_string_strs(c.tags)]

\* the terms of the columns concepts_fts indexes: topic, title, explanation, tags
ConceptTerms(row) ==
    TextTerms(row.topic) \cup TextTerms(row.title) \cup TextTerms(row.explanation)
        \cup JsonTerms(row.tags)

\* an insert trigger that leaves the title column out
concepts_ai_NoTitle(fts, new) ==
    FtsInsert(fts, new.rowid, ConceptTerms(new) \ TextTerms(new.title))

concepts_ai(fts, new) == FtsInsert(fts, new.rowid, ConceptTerms(new))

concepts_ad(fts, old) == FtsDelete(fts, old.rowid, ConceptTerms(old))

\* AFTER UPDATE ON concepts: the old entry is removed and the new values posted
concepts_au(fts, old, new) == concepts_ai(concepts_ad(fts, old), new)

\* a plain INSERT that keeps the conflicting row
ReplaceConcept_Append(table, c) == table \cup {ConceptRow(NewRowid(table), c)}

\* the table after INSERT OR REPLACE INTO concepts of the value c
ReplaceConcept(table, c) ==
    (table \ Conflicts(table, "id", c.id)) \cup {ConceptRow(NewRowid(table), c)}

\* the index after the triggers the statement fires, table being the rows before it
IndexConcept(table, fts, c) ==
    LET old == Conflicts(table, "id", c.id)
        deleted == IF recursive_triggers /\ old # {}
                   THEN concepts_ad(fts, CHOOSE o \in old : TRUE)
                   ELSE fts
    IN concepts_ai(deleted, ConceptRow(NewRowid(table), c))

\* a decoding that puts an empty list in the place of a blob that fails to parse
ConceptOfRow_Defaulting(row) ==
    LET ce == from_str_examples(row.code_examples)
        cm == from_str_strs(row.common_mistakes)
        rc == from_str_strs(row.related_concepts)
        tg == from_str_strs(row.tags)
    IN Ok([id |-> row.id, topic |-> row.topic, title |-> row.title,
           explanation |-> row.explanation,
           code_examples |-> IF IsOk(ce) THEN ce[2] ELSE <<>>,
           common_mistakes |-> IF IsOk(cm) THEN cm[2] ELSE <<>>,
           related_concepts |-> IF IsOk(rc) THEN rc[2] ELSE <<>>,
           tags |-> IF IsOk(tg) THEN tg[2] ELSE <<>>])

\* a row of concepts -> Result<KnowledgeConcept>, a blob that fails to parse is an error
ConceptOfRow(row) ==
    LET ce == from_str_examples(row.code_examples)
        cm == from_str_strs(row.common_mistakes)
        rc == from_str_strs(row.related_concepts)
        tg == from_str_strs(row.tags)
    IN IF IsOk(ce) /\ IsOk(cm) /\ IsOk(rc) /\ IsOk(tg)
       THEN Ok([id |-> row.id, topic |-> row.topic, title |-> row.title,
                explanation |-> row.explanation, code_examples |-> ce[2],
                common_mistakes |-> cm[2], related_concepts |-> rc[2], tags |-> tg[2]])
       ELSE Err("json")

\* a lookup that takes the first row without looking whether there is one
get_concept_NoRows(table, id) ==
    LET rows == {r \in table : r.id = id}
    IN IF rows = {} THEN Err("QueryReturnedNoRows")
       ELSE LET c == ConceptOfRow(CHOOSE r \in rows : TRUE)
            IN IF IsOk(c) THEN Ok(Some(c[2])) ELSE c

get_concept(table, id) ==
    LET rows == {r \in table : r.id = id}
    IN IF rows = {} THEN Ok(None)
       ELSE LET c == ConceptOfRow(CHOOSE r \in rows : TRUE)
            IN IF IsOk(c) THEN Ok(Some(c[2])) ELSE c

count_concepts(table) == Cardinality(table)

\* a row of concepts -> KnowledgeConcept, a blob that fails to parse becomes empty
ConceptOfRowOrDefault(row) ==
    LET ce == from_str_examples(row.code_examples)
        cm == from_str_strs(row.common_mistakes)
        rc == from_str_strs(row.related_concepts)
        tg == from_str_strs(row.tags)
    IN [id |-> row.id, topic |-> row.topic, title |-> row.title,
        explanation |-> row.explanation,
        code_examples |-> IF IsOk(ce) THEN ce[2] ELSE <<>>,
        common_mistakes |-> IF IsOk(cm) THEN cm[2] ELSE <<>>,
        related_concepts |-> IF IsOk(rc) THEN rc[2] ELSE <<>>,
        tags |-> IF IsOk(tg) THEN tg[2] ELSE <<>>]

\* concepts c JOIN concepts_fts fts ON c.rowid = fts.rowid WHERE concepts_fts MATCH ?1
JoinMatch(table, matched) == ByRowid({r \in table : r.rowid \in matched})

search_concepts_limit(table, fts, query, limit) ==
    LET m == Fts5Match(fts, query)
    IN IF ~IsOk(m) THEN m
       ELSE LET rows == Limit(JoinMatch(table, m[2]), limit)
            IN Ok([i \in 1..Len(rows) |-> ConceptOfRowOrDefault(rows[i])])

search_concepts(table, fts, query) == search_concepts_limit(table, fts, query, 10)

search_by_topic(table, topic) ==
    LET rows == ByRowid({r \in table : r.topic = topic})
    IN Ok([i \in 1..Len(rows) |-> ConceptOfRowOrDefault(rows[i])])

\* the concatenation of the sequences of a sequence
RECURSIVE Flatten(_)
Flatten(seqs) == IF seqs = <<>> THEN <<>> ELSE seqs[1] \o Flatten(Tail(seqs))

\* the tokens FTS5 indexes for a row of concepts, column after column
ConceptTokens(row) ==
    LET strs == SelectSeq(row.tags, LAMBDA t : t[1] = "str")
    IN SelectSeq(row.topic \o row.title \o row.explanation
                    \o Flatten([i \in 1..Len(strs) |-> Chars(strs[i][2])]),
                 LAMBDA w : w \notin Separators)

\* the number of occurrences of the query term in the indexed columns of the row
TermFrequency(row, query) ==
    Cardinality({i \in 1..Len(ConceptTokens(row)) :
                    Fold(ConceptTokens(row)[i]) = Fold(query)})

DocLength(row) == Len(ConceptTokens(row))

\* the rank of FTS5 (bm25) for a one-term query grows with the term frequency and
\* falls with the length of the document: row a ranks strictly better than row b
\* whenever it holds the term at least as often in no more tokens, one of the two
\* strictly
Bm25Better(a, b, query) ==
    /\ TermFrequency(a, query) >= TermFrequency(b, query)
    /\ DocLength(a) <= DocLength(b)
    /\ \/ TermFrequency(a, query) > TermFrequency(b, query)
       \/ DocLength(a) < DocLength(b)

(***************************************************************************)
(* Table patterns and its index                                            *)
(***************************************************************************)
PatternRow(rowid, p) ==
    [rowid |-> rowid, id |-> p.id, name |-> p.name, description |-> p.description,
     template |-> p.template, when_to_use |-> p.when_to_use,
     when_not_to_use |-> p.when_not_to_use,
     examples |-> to_string_examples(p.examples)]

\* the terms of the columns patterns_fts indexes: name, description, when_to_use
PatternTerms(row) ==
    TextTerms(row.name) \cup TextTerms(row.description) \cup TextTerms(row.when_to_use)

patterns_ai(fts, new) == FtsInsert(fts, new.rowid, PatternTerms(new))

patterns_ad(fts, old) == FtsDelete(fts, old.rowid, PatternTerms(old))

patterns_au(fts, old, new) == patterns_ai(patterns_ad(fts, old), new)

\* a plain INSERT that keeps the conflicting row
ReplacePattern_Append(table, p) == table \cup {PatternRow(NewRowid(table), p)}

\* the table after INSERT OR REPLACE INTO patterns of the value p
ReplacePattern(table, p) ==
    (table \ Conflicts(table, "id", p.id)) \cup {PatternRow(NewRowid(table), p)}

\* the index after the triggers the statement fires, table being the rows before it
IndexPattern(table, fts, p) ==
    LET old == Conflicts(table, "id", p.id)
        deleted == IF recursive_triggers /\ old # {}
                   THEN patterns_ad(fts, CHOOSE o \in old : TRUE)
                   ELSE fts
    IN patterns_ai(deleted, PatternRow(NewRowid(table), p))

PatternOfRow(row) ==
    LET ex == from_str_examples(row.examples)
    IN IF IsOk(ex)
       THEN Ok([id |-> row.id, name |-> row.name, description |-> row.description,
                template |-> row.template, when_to_use |-> row.when_to_use,
                when_not_to_use |-> row.when_not_to_use, examples |-> ex[2]])
       ELSE Err("json")

get_pattern(table, id) ==
    LET rows == {r \in table : r.id = id}
    IN IF rows = {} THEN Ok(None)
       ELSE LET p == PatternOfRow(CHOOSE r \in rows : TRUE)
            IN IF IsOk(p) THEN Ok(Some(p[2])) ELSE p

count_patterns(table) == Cardinality(table)

PatternOfRowOrDefault(row) ==
    LET ex == from_str_examples(row.examples)
    IN [id |-> row.id, name |-> row.name, description |-> row.description,
        template |-> row.template, when_to_use |-> row.when_to_use,
        when_not_to_use |-> row.when_not_to_use,
        examples |-> IF IsOk(ex) THEN ex[2] ELSE <<>>]

find_patterns_limit(table, fts, use_case, limit) ==
    LET m == Fts5Match(fts, use_case)
    IN IF ~IsOk(m) THEN m
       ELSE LET rows == Limit(JoinMatch(table, m[2]), limit)
            IN Ok([i \in 1..Len(rows) |-> PatternOfRowOrDefault(rows[i])])

find_patterns(table, fts, use_case) == find_patterns_limit(table, fts, use_case, 10)

(***************************************************************************)
(* Table errors (no index; its rowids are read by nothing and are left out)*)
(***************************************************************************)
ErrorRow(e) ==
    [error_code |-> e.error_code, title |-> e.title, explanation |-> e.explanation,
     example_bad |-> e.example_bad, example_good |-> e.example_good,
     fix_strategies |-> to_string_strs(e.fix_strategies)]

\* a statement that deletes every row before it inserts
ReplaceError_Only(table, e) == {ErrorRow(e)}

\* the table after INSERT OR REPLACE INTO errors of the value e
ReplaceError(table, e) ==
    (table \ Conflicts(table, "error_code", e.error_code)) \cup {ErrorRow(e)}

ErrorOfRow(row) ==
    LET fs == from_str_strs(row.fix_strategies)
    IN IF IsOk(fs)
       THEN Ok([error_code |-> row.error_code, title |-> row.title,
                explanation |-> row.explanation, example_bad |-> row.example_bad,
                example_good |-> row.example_good, fix_strategies |-> fs[2]])
       ELSE Err("json")

get_error(table, error_code) ==
    LET rows == {r \in table : r.error_code = error_code}
    IN IF rows = {} THEN Ok(None)
       ELSE LET e == ErrorOfRow(CHOOSE r \in rows : TRUE)
            IN IF IsOk(e) THEN Ok(Some(e[2])) ELSE e

count_errors(table) == Cardinality(table)

\* KnowledgeQuery::explain_error
explain_error(table, error_code) == get_error(table, error_code)

(***************************************************************************)
(* Table commands (no index)                                               *)
(***************************************************************************)
\* CommandFlag -> JSON object, fields in declaration order
JsonFlag(f) ==
    << P("{"), S("flag"), P(":"), S(f.flag), P(","),
       S("description"), P(":"), S(f.description), P("}") >>

\* Vec<CommandFlag> -> JSON text
to_string_flags(l) == JsonArray([i \in 1..Len(l) |-> JsonFlag(l[i])])

IsFlagAt(b, i) ==
    /\ Len(b) >= i + 8
    /\ b[i] = P("{") /\ b[i+1] = S("flag") /\ b[i+2] = P(":") /\ b[i+3][1] = "str"
    /\ b[i+4] = P(",") /\ b[i+5] = S("description") /\ b[i+6] = P(":")
    /\ b[i+7][1] = "str" /\ b[i+8] = P("}")

FlagAt(b, i) == [flag |-> b[i+3][2], description |-> b[i+7][2]]

\* parse the elements of an array of CommandFlag objects
RECURSIVE ParseFlags(_)
ParseFlags(b) ==
    IF ~IsFlagAt(b, 1) THEN Err("json")
    ELSE IF Len(b) = 9 THEN Ok(<<FlagAt(b, 1)>>)
    ELSE IF b[10] # P(",") THEN Err("json")
    ELSE LET rest == ParseFlags(SubSeq(b, 11, Len(b)))
         IN IF IsOk(rest) THEN Ok(<<FlagAt(b, 1)>> \o rest[2]) ELSE rest

\* JSON text -> Result<Vec<CommandFlag>>
from_str_flags(b) ==
    IF ~IsArray(b) THEN Err("json")
    ELSE IF Len(b) = 2 THEN Ok(<<>>)
    ELSE ParseFlags(Inner(b))

CommandInputs ==
    { [tool |-> "cargo", command |-> <<"build">>, description |-> <<"compile">>,
       flags |-> <<[flag |-> <<"release">>, description |-> <<"fast">>]>>,
       examples |-> <<"cargo build">>],
      [tool |-> "rustup", command |-> <<"update">>, description |-> <<"sem">>,
       flags |-> <<>>, examples |-> <<>>] }

CommandRow(id, c) ==
    [id |-> id, tool |-> c.tool, command |-> c.command, description |-> c.description,
     flags |-> to_string_flags(c.flags), examples |-> to_string_strs(c.examples)]

\* INTEGER PRIMARY KEY AUTOINCREMENT: one more than the largest id the table has ever
\* held; no statement deletes from commands, so that is the largest id it holds
NewCommandId(table) == IF table = {} THEN 1 ELSE SetMax({r.id : r \in table}) + 1

\* an insert that replaces a row with the same tool and command
InsertCommand_Dedup(table, c) ==
    {r \in table : ~(r.tool = c.tool /\ r.command = c.command)}
        \cup {CommandRow(NewCommandId(table), c)}

\* the table after INSERT INTO commands of the value c
InsertCommand(table, c) == table \cup {CommandRow(NewCommandId(table), c)}

\* conn.last_insert_rowid() after the insert into table
last_insert_rowid(table) == NewCommandId(table)

count_commands(table) == Cardinality(table)

\* a row of commands -> KnowledgeCommand, a blob that fails to parse becomes empty
CommandOfRowOrDefault(row) ==
    LET fl == from_str_flags(row.flags)
        ex == from_str_strs(row.examples)
    IN [tool |-> row.tool, command |-> row.command, description |-> row.description,
        flags |-> IF IsOk(fl) THEN fl[2] ELSE <<>>,
        examples |-> IF IsOk(ex) THEN ex[2] ELSE <<>>]

\* the sequence of the elements of a set of rows by ascending id
RECURSIVE ById(_)
ById(rows) ==
    IF rows = {} THEN <<>>
    ELSE LET first == CHOOSE r \in rows : \A o \in rows : r.id <= o.id
         IN <<first>> \o ById(rows \ {first})

\* text LIKE '%keyword%': the keyword occurs in the text, letter case ignored
Like(text, keyword) ==
    LET k == Chars(keyword)
    IN \E i \in 1..(Len(text) - Len(k) + 1) :
          \A j \in 1..Len(k) : Fold(text[i + j - 1]) = Fold(k[j])

search_commands(table, tool, keyword) ==
    LET rows == ById({r \in table : /\ r.tool = tool
                                    /\ \/ Like(r.command, keyword)
                                       \/ Like(r.description, keyword)})
        first == Limit(rows, 20)
    IN Ok([i \in 1..Len(first) |-> CommandOfRowOrDefault(first[i])])

get_tool_commands(table, tool) ==
    LET rows == ById({r \in table : r.tool = tool})
    IN Ok([i \in 1..Len(rows) |-> CommandOfRowOrDefault(rows[i])])

(***************************************************************************)
(* search_all, SearchResults and the fetcher                               *)
(***************************************************************************)
SearchResults(cs, ps, cmds) == [concepts |-> cs, patterns |-> ps, commands |-> cmds]

\* a combined search that also looks the text up in the commands
search_all_WithCommands(v, query) ==
    LET cs == search_concepts_limit(v.concepts, v.concepts_fts, query, 5)
        ps == find_patterns_limit(v.patterns, v.patterns_fts, query, 5)
    IN IF ~IsOk(cs) THEN cs
       ELSE IF ~IsOk(ps) THEN ps
       ELSE Ok(SearchResults(cs[2], ps[2], search_commands(v.commands, "rustup", query)[2]))

\* v is the store: its tables and indexes
search_all(v, query) ==
    LET cs == search_concepts_limit(v.concepts, v.concepts_fts, query, 5)
        ps == find_patterns_limit(v.patterns, v.patterns_fts, query, 5)
    IN IF ~IsOk(cs) THEN cs
       ELSE IF ~IsOk(ps) THEN ps
       ELSE Ok(SearchResults(cs[2], ps[2], <<>>))

is_empty(results) ==
    results.concepts = <<>> /\ results.patterns = <<>> /\ results.commands = <<>>

total(results) == Len(results.concepts) + Len(results.patterns) + Len(results.commands)

\* f32 values from 2^-4 up to 1, and 0, are written as integers in units of 2^-27
F32One == 134217728

\* the distance between neighbouring f32 values at x
Ulp(x) ==
    IF x >= F32One \div 2 THEN 8
    ELSE IF x >= F32One \div 4 THEN 4
    ELSE IF x >= F32One \div 8 THEN 2
    ELSE 1

\* the f32 nearest to x + r/d (0 <= r < d), ties to the even mantissa
RoundF32(x, r, d) ==
    LET u == Ulp(x)
        low == x - (x % u)
        twice == 2 * ((x % u) * d + r)
    IN IF twice < u * d THEN low
       ELSE IF twice > u * d THEN low + u
       ELSE IF (low \div u) % 2 = 0 THEN low ELSE low + u

\* the f32 value of a decimal literal given in hundredths
F32Literal(hundredths) ==
    RoundF32(hundredths * (F32One \div 100) + (hundredths * (F32One % 100)) \div 100,
             (hundredths * (F32One % 100)) % 100, 100)

\* usize as f32 * f32, for the small integers that are exact in f32
F32Mul(n, a) == RoundF32(n * a, 0, 1)

F32Add(a, b) == RoundF32(a + b, 0, 1)

\* a score that grows by 0.1 per result
calculate_confidence_Steep(n) ==
    IF n = 0 THEN F32Literal(0)
    ELSE IF n >= 5 THEN F32Literal(90)
    ELSE F32Add(F32Literal(50), F32Mul(n, F32Literal(10)))

\* n is results.total()
calculate_confidence(n) ==
    IF n = 0 THEN F32Literal(0)
    ELSE IF n >= 5 THEN F32Literal(90)
    ELSE F32Add(F32Literal(50), F32Mul(n, F32Literal(8)))

Request(type, tool, text) == [type |-> type, tool |-> tool, text |-> text]

\* a fetcher that lists the error it has found among the concepts
FetchResults_ErrorListed(v, request) ==
    IF request.type = "explain_concept"
    THEN LET cs == search_concepts(v.concepts, v.concepts_fts, request.text)
         IN IF IsOk(cs) THEN Ok(SearchResults(cs[2], <<>>, <<>>)) ELSE cs
    ELSE IF request.type = "find_pattern"
    THEN LET ps == find_patterns(v.patterns, v.patterns_fts, request.text)
         IN IF IsOk(ps) THEN Ok(SearchResults(<<>>, ps[2], <<>>)) ELSE ps
    ELSE IF request.type = "explain_error"
    THEN LET e == explain_error(v.errors, request.text)
         IN IF ~IsOk(e) THEN e
            ELSE IF e[2] # None THEN Ok(SearchResults(<<e[2][2]>>, <<>>, <<>>))
            ELSE Ok(SearchResults(<<>>, <<>>, <<>>))
    ELSE IF request.type = "find_command"
    THEN LET cmds == search_commands(v.commands, request.tool, request.text)
         IN IF IsOk(cmds) THEN Ok(SearchResults(<<>>, <<>>, cmds[2])) ELSE cmds
    ELSE search_all(v, request.text)

\* the result set KnowledgeFetcher::fetch builds for a request on the store v
FetchResults(v, request) ==
    IF request.type = "explain_concept"
    THEN LET cs == search_concepts(v.concepts, v.concepts_fts, request.text)
         IN IF IsOk(cs) THEN Ok(SearchResults(cs[2], <<>>, <<>>)) ELSE cs
    ELSE IF request.type = "find_pattern"
    THEN LET ps == find_patterns(v.patterns, v.patterns_fts, request.text)
         IN IF IsOk(ps) THEN Ok(SearchResults(<<>>, ps[2], <<>>)) ELSE ps
    ELSE IF request.type = "explain_error"
    THEN LET e == explain_error(v.errors, request.text)
         IN IF ~IsOk(e) THEN e
            ELSE IF e[2] # None THEN Ok(SearchResults(<<>>, <<>>, <<>>))
            ELSE Ok(SearchResults(<<>>, <<>>, <<>>))
    ELSE IF request.type = "find_command"
    THEN LET cmds == search_commands(v.commands, request.tool, request.text)
         IN IF IsOk(cmds) THEN Ok(SearchResults(<<>>, <<>>, cmds[2])) ELSE cmds
    ELSE search_all(v, request.text)

\* KnowledgeFetcher::fetch on the store v; the formatted text is a function of the
\* results and is left out
KnowledgeResponse(v, request) ==
    LET results == FetchResults(v, request)
    IN IF IsOk(results)
       THEN Ok([request |-> request, results |-> results[2],
                confidence |-> calculate_confidence(total(results[2]))])
       ELSE results

has_results(resp) == ~is_empty(resp.results)

(***************************************************************************)
(* The loader: serde_json::Value documents, slugify and the load loops     *)
(***************************************************************************)
\* serde_json::Value
Null == <<"null">>
JStr(s) == <<"str", s>>
JArr(items) == <<"arr", items>>
JObj(fields) == <<"obj", fields>>

\* value[key]: Null when the value is no object or has no such member
Index(value, key) ==
    IF value[1] = "obj" /\ key \in DOMAIN value[2] THEN value[2][key] ELSE Null

as_array(value) == IF value[1] = "arr" THEN Some(value[2]) ELSE None

as_str(value) == IF value[1] = "str" THEN Some(value[2]) ELSE None

unwrap_or(opt, default) == IF opt[1] = "Some" THEN opt[2] ELSE default

\* value[key].as_array(), no array counting as an empty one
Elements(value, key) == unwrap_or(as_array(Index(value, key)), <<>>)

\* value[key].as_str().unwrap_or(default)
StrOr(value, key, default) == unwrap_or(as_str(Index(value, key)), default)

\* iter().filter_map(|e| e.as_str()) over value[key]
StrElements(value, key) ==
    LET strs == SelectSeq(Elements(value, key), LAMBDA e : e[1] = "str")
    IN [i \in 1..Len(strs) |-> strs[i][2]]

to_lowercase(text) == [i \in 1..Len(text) |-> Fold(text[i])]

\* str::split: the pieces of the text between the occurrences of the separator
RECURSIVE Split(_, _)
Split(text, sep) ==
    IF \A i \in 1..Len(text) : text[i] # sep THEN <<text>>
    ELSE LET i == CHOOSE k \in 1..Len(text) :
                      text[k] = sep /\ \A j \in 1..(k - 1) : text[j] # sep
         IN <<SubSeq(text, 1, i - 1)>> \o Split(SubSeq(text, i + 1, Len(text)), sep)

RECURSIVE Join(_, _)
Join(pieces, sep) ==
    IF pieces = <<>> THEN <<>>
    ELSE IF Len(pieces) = 1 THEN pieces[1]
    ELSE pieces[1] \o <<sep>> \o Join(Tail(pieces), sep)

\* a slug made without dropping the empty pieces
slugify_KeepEmpty(text) ==
    LET lower == to_lowercase(text)
        mapped == [i \in 1..Len(lower) |->
                      IF lower[i] \in Separators THEN "-" ELSE lower[i]]
    IN Join(Split(mapped, "-"), "-")

slugify(text) ==
    LET lower == to_lowercase(text)
        mapped == [i \in 1..Len(lower) |->
                      IF lower[i] \in Separators THEN "-" ELSE lower[i]]
    IN Join(SelectSeq(Split(mapped, "-"), LAMBDA piece : piece # <<>>), "-")

\* the bullet block the loader appends for a list member of a concept element
Bullets(concept, key, heading) ==
    IF as_array(Index(concept, key)) = None THEN <<>>
    ELSE <<"\n", "\n">> \o heading \o <<":", "\n">>
            \o Flatten([i \in 1..Len(StrElements(concept, key)) |->
                           <<"-", " ">> \o Chars(StrElements(concept, key)[i])
                               \o <<"\n">>])

\* format!("{}-{}", module_id, slugify(concept_name))
ConceptId(module_id, concept_name) ==
    Chars(module_id) \o <<"-">> \o slugify(Chars(concept_name))

\* the KnowledgeConcept load_core_concepts builds from a concept element of a module
ConceptOfElement(module, concept) ==
    LET module_id == StrOr(module, "id", "unknown")
        concept_name == StrOr(concept, "name", "Unnamed")
        examples == Elements(concept, "examples")
    IN [id |-> ConceptId(module_id, concept_name),
        topic |-> Chars(module_id),
        title |-> Chars(concept_name),
        explanation |-> Chars(StrOr(concept, "description", ""))
                            \o Bullets(concept, "rules", <<"Rules">>)
                            \o Bullets(concept, "key_points", <<"Key", " ", "Points">>),
        code_examples |-> [i \in 1..Len(examples) |->
                              [title |-> StrOr(examples[i], "title", ""),
                               code |-> StrOr(examples[i], "code", ""),
                               explanation |-> StrOr(examples[i], "explanation", "")]],
        common_mistakes |-> StrElements(concept, "common_errors"),
        related_concepts |-> <<>>,
        tags |-> <<module_id, module_id>>]

\* the values load_core_concepts stores for a document, in document order
ConceptsOfDocument(data) ==
    LET modules == Elements(data, "modules")
    IN Flatten([m \in 1..Len(modules) |->
                   [c \in 1..Len(Elements(modules[m], "concepts")) |->
                       ConceptOfElement(modules[m], Elements(modules[m], "concepts")[c])]])

\* the KnowledgePattern load_patterns builds from a pattern element of a category
PatternOfElement(category, pattern) ==
    LET category_name == StrOr(category, "name", "Unknown")
        pattern_name == StrOr(pattern, "name", "Unnamed")
        description == StrOr(pattern, "description", "")
    IN [id |-> slugify(Chars(category_name)) \o <<"-">> \o slugify(Chars(pattern_name)),
        name |-> Chars(pattern_name),
        description |-> Chars(description),
        template |-> Chars(StrOr(pattern, "example", "")),
        when_to_use |-> Chars(category_name),
        when_not_to_use |-> <<>>,
        examples |-> IF as_str(Index(pattern, "example")) = None THEN <<>>
                     ELSE <<[title |-> pattern_name,
                             code |-> as_str(Index(pattern, "example"))[2],
                             explanation |-> description]>>]

PatternsOfDocument(data) ==
    LET categories == Elements(data, "categories")
    IN Flatten([k \in 1..Len(categories) |->
                   [i \in 1..Len(Elements(categories[k], "patterns")) |->
                       PatternOfElement(categories[k],
                                        Elements(categories[k], "patterns")[i])]])

\* str::trim
RECURSIVE trim(_)
trim(text) ==
    IF text = <<>> THEN <<>>
    ELSE IF text[1] \in {" ", "\n"} THEN trim(Tail(text))
    ELSE IF text[Len(text)] \in {" ", "\n"} THEN trim(SubSeq(text, 1, Len(text) - 1))
    ELSE text

\* the places where " - " starts in the text
DashAt(text) ==
    {i \in 1..(Len(text) - 2) : SubSeq(text, i, i + 2) = <<" ", "-", " ">>}

\* opt_str.splitn(2, " - ") made into a CommandFlag
FlagOfOption(opt_str) ==
    LET text == Chars(opt_str)
    IN IF DashAt(text) = {} THEN [flag |-> text, description |-> <<>>]
       ELSE LET i == CHOOSE k \in DashAt(text) : \A o \in DashAt(text) : k <= o
            IN [flag |-> trim(SubSeq(text, 1, i - 1)),
                description |-> trim(SubSeq(text, i + 3, Len(text)))]

\* section_name.contains(word)
Contains(name, word) == word \in Range(Chars(name))

\* the KnowledgeCommand load_commands builds from a command element of a section
CommandOfElement(section, cmd) ==
    LET section_name == StrOr(section, "name", "Unknown")
        opts == StrElements(cmd, "options")
    IN [tool |-> IF Contains(section_name, "Cargo") THEN "cargo"
                 ELSE IF Contains(section_name, "Rustup") THEN "rustup"
                 ELSE "rust",
        command |-> Chars(StrOr(cmd, "command", "")),
        description |-> Chars(StrOr(cmd, "description", "")),
        flags |-> [i \in 1..Len(opts) |-> FlagOfOption(opts[i])],
        examples |-> StrElements(cmd, "examples")]

CommandsOfDocument(data) ==
    LET sections == Elements(data, "sections")
    IN Flatten([k \in 1..Len(sections) |->
                   [i \in 1..Len(Elements(sections[k], "commands")) |->
                       CommandOfElement(sections[k],
                                        Elements(sections[k], "commands")[i])]])

\* the store: its tables and indexes
Store ==
    [concepts |-> concepts, concepts_fts |-> concepts_fts, patterns |-> patterns,
     patterns_fts |-> patterns_fts, errors |-> errors, commands |-> commands]

\* the store v after self.db.store_concept(c)
StoreConcept(v, c) ==
    [v EXCEPT !.concepts = ReplaceConcept(v.concepts, c),
              !.concepts_fts = IndexConcept(v.concepts, v.concepts_fts, c)]

StorePattern(v, p) ==
    [v EXCEPT !.patterns = ReplacePattern(v.patterns, p),
              !.patterns_fts = IndexPattern(v.patterns, v.patterns_fts, p)]

StoreCommand(v, c) == [v EXCEPT !.commands = InsertCommand(v.commands, c)]

\* the store after the store calls of a load loop, one per value, in order
RECURSIVE StoreAll(_, _, _)
StoreAll(v, kind, values) ==
    IF values = <<>> THEN v
    ELSE StoreAll(IF kind = "concepts" THEN StoreConcept(v, values[1])
                  ELSE IF kind = "patterns" THEN StorePattern(v, values[1])
                  ELSE StoreCommand(v, values[1]),
                  kind, Tail(values))

BigDocSize == 11

\* the content of a file that does not exist
Absent == "absent"

\* a text that is no JSON
Malformed == "{ malformed"

\* path.exists()
exists(content) == content # Absent

\* rust_core_concepts.json with two modules and three concepts
SmallConcepts ==
    JObj([modules |-> JArr(<<
        JObj([id |-> JStr("own"),
              concepts |-> JArr(<<
                  JObj([name |-> JStr("Move Sem"), description |-> JStr("how"),
                        rules |-> JArr(<<JStr("use")>>),
                        examples |-> JArr(<<JObj([title |-> JStr("basic"),
                                                  code |-> JStr("let"),
                                                  explanation |-> JStr("moved")])>>),
                        common_errors |-> JArr(<<JStr("use")>>)]),
                  JObj([name |-> JStr("borrow"), key_points |-> JArr(<<JStr("ref")>>)])
              >>)]),
        JObj([id |-> JStr("Own Ship"),
              concepts |-> JArr(<<JObj([description |-> JStr("sem")])>>)])
    >>)])

\* rust_core_concepts.json with one module of BigDocSize concepts that hold "sem"
BigConcepts ==
    JObj([modules |-> JArr(<<
        JObj([id |-> JStr("own"),
              concepts |-> JArr([i \in 1..BigDocSize |->
                                    JObj([name |-> JStr(ToString(i)),
                                          description |-> JStr("sem")])])])
    >>)])

SmallPatterns ==
    JObj([categories |-> JArr(<<
        JObj([name |-> JStr("Creational Builder"),
              patterns |-> JArr(<<
                  JObj([name |-> JStr("Builder"), description |-> JStr("step"),
                        example |-> JStr("impl")]),
                  JObj([name |-> JStr("newtype"), description |-> JStr("sem")])
              >>)])
    >>)])

BigPatterns ==
    JObj([categories |-> JArr(<<
        JObj([name |-> JStr("many"),
              patterns |-> JArr([i \in 1..BigDocSize |->
                                    JObj([name |-> JStr(ToString(i)),
                                          description |-> JStr("sem")])])])
    >>)])

\* rust_core_concepts.json with two names of one slug, a name used twice and two
\* concepts without a name
TwinConcepts ==
    JObj([modules |-> JArr(<<
        JObj([id |-> JStr("own"),
              concepts |-> JArr(<<
                  JObj([name |-> JStr("Move Sem"), description |-> JStr("how")]),
                  JObj([name |-> JStr("move-sem"), description |-> JStr("sem")]),
                  JObj([name |-> JStr("borrow"), description |-> JStr("how")]),
                  JObj([name |-> JStr("borrow"), description |-> JStr("sem")]),
                  JObj([description |-> JStr("how")]),
                  JObj([description |-> JStr("sem")])
              >>)])
    >>)])

\* rust_patterns_idioms.json with two pattern names of one slug
TwinPatterns ==
    JObj([categories |-> JArr(<<
        JObj([name |-> JStr("Creational Builder"),
              patterns |-> JArr(<<
                  JObj([name |-> JStr("Move Sem"), description |-> JStr("step")]),
                  JObj([name |-> JStr("move-sem"), description |-> JStr("sem")])
              >>)])
    >>)])

\* rust_toolchain_cargo.json with three sections and four commands
ToolchainCommands ==
    JObj([sections |-> JArr(<<
        JObj([name |-> JStr("Cargo Build"),
              commands |-> JArr(<<
                  JObj([command |-> JStr("build"), description |-> JStr("compile"),
                        options |-> JArr(<<JStr("release - fast"), JStr("verbose")>>),
                        examples |-> JArr(<<JStr("cargo build")>>)]),
                  JObj([command |-> JStr("test"), description |-> JStr("sem")])
              >>)]),
        JObj([name |-> JStr("Rustup Test"),
              commands |-> JArr(<<JObj([command |-> JStr("update"),
                                        description |-> JStr("sem")])>>)]),
        JObj([name |-> JStr("misc"),
              commands |-> JArr(<<JObj([description |-> JStr("sem")])>>)])
    >>)])

\* serde_json::from_str(&content) on the texts the files may hold
from_str_value(content) ==
    CASE content = "small_concepts" -> Ok(SmallConcepts)
      [] content = "big_concepts" -> Ok(BigConcepts)
      [] content = "small_patterns" -> Ok(SmallPatterns)
      [] content = "big_patterns" -> Ok(BigPatterns)
      [] content = "toolchain_commands" -> Ok(ToolchainCommands)
      [] content = "twin_concepts" -> Ok(TwinConcepts)
      [] content = "twin_patterns" -> Ok(TwinPatterns)
      [] OTHER -> Err("json")

\* fs::read_to_string(path)? followed by serde_json::from_str(&content)?
ReadDocument(content) ==
    IF ~exists(content) THEN Err("io") ELSE from_str_value(content)

\* the files of the knowledge directory
FileNames == {"rust_core_concepts.json", "rust_patterns_idioms.json",
              "rust_toolchain_cargo.json"}

\* the kind of record each file is loaded into
KindOf(name) ==
    IF name = "rust_core_concepts.json" THEN "concepts"
    ELSE IF name = "rust_patterns_idioms.json" THEN "patterns"
    ELSE "commands"

ValuesOfDocument(kind, data) ==
    IF kind = "concepts" THEN ConceptsOfDocument(data)
    ELSE IF kind = "patterns" THEN PatternsOfDocument(data)
    ELSE CommandsOfDocument(data)

\* the load loop over the values of a document: one store call per value, each
\* counted
StoreCounted(v, kind, values) ==
    [store |-> StoreAll(v, kind, values), result |-> Ok(Len(values))]

\* the rest of a load_... call once the file is read and parsed into data, or not
LoadParsed(v, kind, data) ==
    IF ~IsOk(data) THEN [store |-> v, result |-> data]
    ELSE StoreCounted(v, kind, ValuesOfDocument(kind, data[2]))

\* load_core_concepts / load_patterns / load_commands on the store v: the store after
\* the call and its result
LoadFile(v, kind, content) == LoadParsed(v, kind, ReadDocument(content))

\* a load that takes a file that does not parse for an empty one
LoadIfExists_Lenient(v, kind, content) ==
    IF exists(content) /\ content # Malformed THEN LoadFile(v, kind, content)
    ELSE [store |-> v, result |-> Ok(0)]

\* if path.exists() { stats.field += self.load_...(&path)?; }
LoadIfExists(v, kind, content) ==
    IF exists(content) THEN LoadFile(v, kind, content)
    ELSE [store |-> v, result |-> Ok(0)]

LoadStats(c, p, e, m) == [concepts |-> c, patterns |-> p, errors |-> e, commands |-> m]

\* stats.field += count?, or the return of the error
AddStats(stats, kind, one) ==
    IF ~IsOk(one.result) THEN one
    ELSE [store |-> one.store,
          result |-> Ok([stats EXCEPT ![kind] = stats[kind] + one.result[2]])]

\* a load that goes on with the next file after a file has failed
LoadNext_Continuing(acc, kind, content) ==
    IF ~IsOk(acc.result)
    THEN [store |-> LoadIfExists(acc.store, kind, content).store, result |-> acc.result]
    ELSE AddStats(acc.result[2], kind, LoadIfExists(acc.store, kind, content))

\* one file of load_all_from_directory, acc being the store and the stats so far, or
\* the error the call has returned
LoadNext(acc, kind, content) ==
    IF ~IsOk(acc.result) THEN acc
    ELSE AddStats(acc.result[2], kind, LoadIfExists(acc.store, kind, content))

\* load_all_from_directory on the store v and the directory dir
LoadDirectory(v, dir) ==
    LoadNext(LoadNext(LoadNext([store |-> v, result |-> Ok(LoadStats(0, 0, 0, 0))],
                               "concepts", dir["rust_core_concepts.json"]),
                      "patterns", dir["rust_patterns_idioms.json"]),
             "commands", dir["rust_toolchain_cargo.json"])

(***************************************************************************)
(* History of the calls, for the properties that speak of earlier calls    *)
(***************************************************************************)
\* the declared data columns of the rows of a table
Data(table) == {[f \in DOMAIN r \ {"rowid"} |-> r[f]] : r \in table}

NoCall == [op |-> "none", x |-> <<>>, seq |-> "other", n0 |-> 0, data |-> {}]

\* the record of a store call op(x): seq is "first" when the key was absent before the
\* call, "second" when the call repeats the call before it and that one was "first";
\* n0 is the row count before the "first" call and data the rows after it
CallRecord(op, x, had, count_before, data_after) ==
    LET seq == IF ~had THEN "first"
               ELSE IF prev.op = op /\ prev.seq = "first" /\ prev.x = x THEN "second"
               ELSE "other"
    IN [op |-> op, x |-> x, seq |-> seq,
        n0 |-> IF seq = "first" THEN count_before ELSE IF seq = "second" THEN prev.n0 ELSE 0,
        data |-> IF seq = "first" THEN data_after ELSE IF seq = "second" THEN prev.data ELSE {}]

(***************************************************************************)
(* Handles, connections and threads                                        *)
(***************************************************************************)
Threads == {"t1", "t2"}

\* "db" is the handle the program opens first; "db2" is obtained later, by clone()
\* or by another KnowledgeDatabase::new on the same path
HandleIds == {"db", "db2"}

\* every handle may have a connection of its own
Conns == 1..Cardinality(HandleIds)

StoreNames == {"store_concept", "store_pattern", "store_error"}

ReadNames == {"get_concept", "get_pattern", "get_error", "explain_error",
              "count_concepts", "count_patterns", "count_errors",
              "search_concepts_limit", "search_by_topic", "find_patterns_limit"}

\* op is the operation the caller has started, name the call that is running and rest
\* the calls the operation makes after it
NoCallRunning == [op |-> "none", name |-> "none", h |-> "db", arg |-> <<>>, rest |-> <<>>]

(***************************************************************************)
(* The store operations, each a whole call on one handle                   *)
(***************************************************************************)
\* the statements of the batch init_schema executes, in order
SchemaStatements ==
    << [kind |-> "table", name |-> "concepts"],
       [kind |-> "table", name |-> "concepts_fts"],
       [kind |-> "trigger", name |-> "concepts_ai"],
       [kind |-> "trigger", name |-> "concepts_ad"],
       [kind |-> "trigger", name |-> "concepts_au"],
       [kind |-> "table", name |-> "patterns"],
       [kind |-> "table", name |-> "patterns_fts"],
       [kind |-> "trigger", name |-> "patterns_ai"],
       [kind |-> "trigger", name |-> "patterns_ad"],
       [kind |-> "trigger", name |-> "patterns_au"],
       [kind |-> "table", name |-> "errors"],
       [kind |-> "index", name |-> "idx_errors_code"],
       [kind |-> "table", name |-> "commands"],
       [kind |-> "index", name |-> "idx_commands_tool"] >>

\* CREATE without IF NOT EXISTS: an error when the name is taken
create_Strict(s, o) ==
    IF \E x \in s : x.name = o.name THEN Err(s) ELSE Ok(s \cup {o})

\* CREATE ... IF NOT EXISTS: nothing is done when the name is taken
create_if_not_exists(s, o) ==
    IF \E x \in s : x.name = o.name THEN Ok(s) ELSE Ok(s \cup {o})

\* conn.execute_batch: the statements run one after the other and the first error
\* ends the batch; the result carries the schema the batch has left
RECURSIVE execute_batch(_, _)
execute_batch(s, statements) ==
    IF statements = <<>> THEN Ok(s)
    ELSE LET r == create_if_not_exists(s, statements[1])
         IN IF IsOk(r) THEN execute_batch(r[2], Tail(statements)) ELSE r

init_schema(s) == execute_batch(s, SchemaStatements)

\* the store after the first KnowledgeDatabase::new on its path: the schema, no rows
Init ==
    /\ concepts = {}
    /\ concepts_fts = <<>>
    /\ patterns = {}
    /\ patterns_fts = <<>>
    /\ errors = {}
    /\ schema = init_schema({})[2]
    /\ last_concept = [id \in ConceptIds |-> None]
    /\ last_pattern = [id \in PatternIds |-> None]
    /\ last_error = [code \in ErrorCodes |-> None]
    /\ prev = NoCall
    /\ handles = [h \in HandleIds |-> IF h = "db" THEN 1 ELSE 0]
    /\ mutex = [c \in Conns |-> "free"]
    /\ pending = [c \in Conns |-> <<>>]
    /\ pc = [t \in Threads |-> "idle"]
    /\ call = [t \in Threads |-> NoCallRunning]
    /\ ret = [t \in Threads |-> <<>>]
    /\ calls = 0
    /\ commands = {}
    /\ command_ids = <<>>
    /\ loads = <<>>
    /\ slug = [input |-> <<>>, once |-> <<>>, twice |-> <<>>]
    /\ response = None

store_concept(c) ==
    /\ NewRowid(concepts) <= MaxConceptRowid
    /\ concepts' = ReplaceConcept(concepts, c)
    /\ concepts_fts' = IndexConcept(concepts, concepts_fts, c)
    /\ last_concept' = [last_concept EXCEPT ![c.id] = Some(c)]
    /\ prev' = CallRecord("store_concept", c, Conflicts(concepts, "id", c.id) # {},
                          count_concepts(concepts), Data(ReplaceConcept(concepts, c)))
    /\ UNCHANGED <<patterns, patterns_fts, errors, schema, last_pattern, last_error,
                   threadVars,
                   cmdVars, loaderVars, response>>

store_pattern(p) ==
    /\ NewRowid(patterns) <= MaxPatternRowid
    /\ patterns' = ReplacePattern(patterns, p)
    /\ patterns_fts' = IndexPattern(patterns, patterns_fts, p)
    /\ last_pattern' = [last_pattern EXCEPT ![p.id] = Some(p)]
    /\ prev' = CallRecord("store_pattern", p, Conflicts(patterns, "id", p.id) # {},
                          count_patterns(patterns), Data(ReplacePattern(patterns, p)))
    /\ UNCHANGED <<concepts, concepts_fts, errors, schema, last_concept, last_error,
                   threadVars,
                   cmdVars, loaderVars, response>>

store_error(e) ==
    /\ errors' = ReplaceError(errors, e)
    /\ last_error' = [last_error EXCEPT ![e.error_code] = Some(e)]
    /\ prev' = CallRecord("store_error", e,
                          Conflicts(errors, "error_code", e.error_code) # {},
                          count_errors(errors), ReplaceError(errors, e))
    /\ UNCHANGED <<concepts, concepts_fts, patterns, patterns_fts, schema,
                   last_concept, last_pattern, threadVars,
                   cmdVars, loaderVars, response>>

Next ==
    \/ \E c \in ConceptInputs : store_concept(c)
    \/ \E p \in PatternInputs : store_pattern(p)
    \/ \E e \in ErrorInputs : store_error(e)

Spec == Init /\ [][Next]_vars

(***************************************************************************)
(* Calls of concurrent threads: lock the handle's Mutex, run the statement *)
(* on its connection, drop the guard on return                             *)
(***************************************************************************)
Committed ==
    [concepts |-> concepts, concepts_fts |-> concepts_fts, patterns |-> patterns,
     patterns_fts |-> patterns_fts, errors |-> errors]

\* what a statement on connection c reads: the effects of the statement the connection
\* itself is running, else the committed store
View(c) == IF pending[c] = <<>> THEN Committed ELSE pending[c][1]

ConnOf(t) == handles[call[t].h]

\* another connection is in the middle of a write statement on the same file
OtherWriter(c) == \E o \in Conns \ {c} : pending[o] # <<>>

\* a Mutex that lets a second thread in
CanLock_Always(c) == TRUE

\* Mutex::lock blocks until the Mutex of connection c is free
CanLock(c) == mutex[c] = "free"

\* KnowledgeDatabase::new on the path of the store: a connection and a Mutex of its
\* own, then init_schema; the handle is returned when init_schema succeeds
new(h) ==
    /\ handles[h] = 0
    /\ \E r \in {init_schema(schema)} :
          /\ schema' = r[2]
          /\ handles' = IF IsOk(r)
                        THEN [handles EXCEPT
                                 ![h] = SetMax({handles[o] : o \in HandleIds}) + 1]
                        ELSE handles
    /\ UNCHANGED <<concepts, concepts_fts, patterns, patterns_fts, errors, histVars,
                   mutex, pending, pc, call, ret, calls, cmdVars, loaderVars, response>>

\* KnowledgeDatabase::clone: the Arc, hence the connection and its Mutex, is shared
clone(h, h2) ==
    /\ handles[h] # 0
    /\ handles[h2] = 0
    /\ handles' = [handles EXCEPT ![h2] = handles[h]]
    /\ UNCHANGED <<storeVars, histVars, mutex, pending, pc, call, ret, calls,
                   cmdVars, loaderVars, response>>

\* a thread calls an operation on a handle
begin(t, h, name) ==
    /\ pc[t] = "idle"
    /\ handles[h] # 0
    /\ calls < MaxCalls
    /\ calls' = calls + 1
    /\ call' = [call EXCEPT
                  ![t] = [op |-> name, name |-> name, h |-> h, arg |-> <<>>, rest |-> <<>>]]
    /\ pc' = [pc EXCEPT ![t] = "lock"]
    /\ UNCHANGED <<storeVars, histVars, handles, mutex, pending, ret,
                   cmdVars, loaderVars, response>>

\* let conn = self.conn.lock().unwrap();
lock(t) ==
    /\ pc[t] = "lock"
    /\ CanLock(ConnOf(t))
    /\ mutex' = [mutex EXCEPT ![ConnOf(t)] = t]
    /\ pc' = [pc EXCEPT ![t] = "exec"]
    /\ UNCHANGED <<storeVars, histVars, handles, pending, call, ret, calls,
                   cmdVars, loaderVars, response>>

\* the values the threads store: the versions of one concept, pattern and error
StoreInputs(name) ==
    IF name = "store_concept" THEN {c \in ConceptInputs : c.id = "c1"}
    ELSE IF name = "store_pattern" THEN {p \in PatternInputs : p.id = "p1"}
    ELSE {e \in ErrorInputs : e.error_code = "E0382"}

\* the store after the row write of conn.execute("INSERT OR REPLACE ..."), before its
\* triggers have run
TableWritten(v, name, x) ==
    IF name = "store_concept" THEN [v EXCEPT !.concepts = ReplaceConcept(v.concepts, x)]
    ELSE IF name = "store_pattern"
         THEN [v EXCEPT !.patterns = ReplacePattern(v.patterns, x)]
    ELSE [v EXCEPT !.errors = ReplaceError(v.errors, x)]

\* the store after the triggers of the statement, v being the store before the statement
TriggersRun(v, written, name, x) ==
    IF name = "store_concept"
    THEN [written EXCEPT !.concepts_fts = IndexConcept(v.concepts, v.concepts_fts, x)]
    ELSE IF name = "store_pattern"
         THEN [written EXCEPT !.patterns_fts = IndexPattern(v.patterns, v.patterns_fts, x)]
    ELSE written

\* conn.execute of a store: the row is written
exec_write(t) ==
    /\ pc[t] = "exec"
    /\ call[t].name \in StoreNames
    /\ ~OtherWriter(ConnOf(t))
    /\ pc' = [pc EXCEPT ![t] = "trigger"]
    /\ \E x \in StoreInputs(call[t].name) :
          /\ pending' = [pending EXCEPT
                            ![ConnOf(t)] = <<TableWritten(Committed, call[t].name, x)>>]
          /\ call' = [call EXCEPT ![t].arg = x]
    /\ UNCHANGED <<storeVars, histVars, handles, mutex, ret, calls,
                   cmdVars, loaderVars, response>>

\* conn.execute of a store while another connection writes: SQLITE_BUSY once the busy
\* timeout is over, which the ? operator returns to the caller
exec_busy(t) ==
    /\ pc[t] = "exec"
    /\ call[t].name \in StoreNames
    /\ OtherWriter(ConnOf(t))
    /\ pc' = [pc EXCEPT ![t] = "unlock"]
    /\ ret' = [ret EXCEPT ![t] = <<Err("busy"), Committed>>]
    /\ UNCHANGED <<storeVars, histVars, handles, mutex, pending, call, calls,
                   cmdVars, loaderVars, response>>

\* conn.execute of a store: the triggers run and the statement commits
exec_trigger(t) ==
    /\ pc[t] = "trigger"
    /\ pc' = [pc EXCEPT ![t] = "unlock"]
    /\ LET name == call[t].name
           x == call[t].arg
           done == TriggersRun(Committed, pending[ConnOf(t)][1], name, x)
       IN /\ concepts' = done.concepts
          /\ concepts_fts' = done.concepts_fts
          /\ patterns' = done.patterns
          /\ patterns_fts' = done.patterns_fts
          /\ errors' = done.errors
          /\ last_concept' = IF name = "store_concept"
                             THEN [last_concept EXCEPT ![x.id] = Some(x)]
                             ELSE last_concept
          /\ last_pattern' = IF name = "store_pattern"
                             THEN [last_pattern EXCEPT ![x.id] = Some(x)]
                             ELSE last_pattern
          /\ last_error' = IF name = "store_error"
                           THEN [last_error EXCEPT ![x.error_code] = Some(x)]
                           ELSE last_error
          /\ ret' = [ret EXCEPT ![t] = <<Ok(<<>>), done>>]
    /\ pending' = [pending EXCEPT ![ConnOf(t)] = <<>>]
    /\ UNCHANGED <<schema, prev, handles, mutex, call, calls, cmdVars, loaderVars,
                   response>>

ReadArgs(name) ==
    IF name = "get_concept" THEN {"c1", "c2"}
    ELSE IF name = "get_pattern" THEN {"p1"}
    ELSE IF name = "get_error" THEN {"E0382"}
    ELSE IF name = "explain_error" THEN {"E0382", "E0499"}
    ELSE IF name = "search_concepts_limit" THEN {"sem"}
    ELSE IF name = "search_by_topic" THEN {<<"own">>}
    ELSE IF name = "find_patterns_limit" THEN {"many"}
    ELSE {<<>>}

\* the result of a read operation on the store v
ReadResult(v, name, arg) ==
    IF name = "get_concept" THEN get_concept(v.concepts, arg)
    ELSE IF name = "get_pattern" THEN get_pattern(v.patterns, arg)
    ELSE IF name = "get_error" THEN get_error(v.errors, arg)
    ELSE IF name = "explain_error" THEN explain_error(v.errors, arg)
    ELSE IF name = "count_concepts" THEN Ok(count_concepts(v.concepts))
    ELSE IF name = "count_patterns" THEN Ok(count_patterns(v.patterns))
    ELSE IF name = "count_errors" THEN Ok(count_errors(v.errors))
    ELSE IF name = "search_concepts_limit"
         THEN search_concepts_limit(v.concepts, v.concepts_fts, arg, 10)
    ELSE IF name = "search_by_topic" THEN search_by_topic(v.concepts, arg)
    ELSE IF name = "count_commands" THEN Ok(count_commands(commands))
    ELSE find_patterns_limit(v.patterns, v.patterns_fts, arg, 10)

\* the query of a read operation runs on the connection
exec_read(t) ==
    /\ pc[t] = "exec"
    /\ call[t].name \in ReadNames \cup {"count_commands"}
    /\ pc' = [pc EXCEPT ![t] = "unlock"]
    /\ \E arg \in ReadArgs(call[t].name) :
          /\ call' = [call EXCEPT ![t].arg = arg]
          /\ ret' = [ret EXCEPT
                        ![t] = <<ReadResult(View(ConnOf(t)), call[t].name, arg),
                                 View(ConnOf(t))>>]
    /\ UNCHANGED <<storeVars, histVars, handles, mutex, pending, calls,
                   cmdVars, loaderVars, response>>

\* the operations that are a sequence of calls, each of which locks for itself:
\* search_all, get_stats, and the loop of load_core_concepts over two concepts
CompositeNames == {"search_all", "get_stats", "load_core_concepts"}

CompositeCalls(op) ==
    IF op = "search_all" THEN <<"search_concepts_limit", "find_patterns_limit">>
    ELSE IF op = "get_stats"
         THEN <<"count_concepts", "count_patterns", "count_errors", "count_commands">>
    ELSE <<"store_concept", "store_concept">>

\* a thread calls search_all, get_stats or a load loop: its first call is made
begin_composite(t, h, op) ==
    /\ pc[t] = "idle"
    /\ handles[h] # 0
    /\ calls < MaxCalls
    /\ calls' = calls + 1
    /\ call' = [call EXCEPT
                  ![t] = [op |-> op, name |-> Head(CompositeCalls(op)), h |-> h,
                          arg |-> <<>>, rest |-> Tail(CompositeCalls(op))]]
    /\ pc' = [pc EXCEPT ![t] = "lock"]
    /\ UNCHANGED <<storeVars, histVars, handles, mutex, pending, ret,
                   cmdVars, loaderVars, response>>

\* an unlock after which the thread goes on without giving the Mutex back
unlock_Keeping(t) ==
    /\ pc[t] = "unlock"
    /\ pc' = [pc EXCEPT ![t] = "idle"]
    /\ call' = [call EXCEPT ![t] = NoCallRunning]
    /\ ret' = [ret EXCEPT ![t] = <<>>]
    /\ UNCHANGED <<storeVars, histVars, handles, mutex, pending, calls,
                   cmdVars, loaderVars, response>>

\* the call returns and the MutexGuard is dropped; the operation makes its next call
\* when there is one and this one has not failed (the ? operator)
unlock(t) ==
    /\ pc[t] = "unlock"
    /\ mutex' = [mutex EXCEPT ![ConnOf(t)] = "free"]
    /\ IF call[t].rest # <<>> /\ IsOk(ret[t][1])
       THEN /\ pc' = [pc EXCEPT ![t] = "lock"]
            /\ call' = [call EXCEPT ![t].name = Head(call[t].rest),
                                    ![t].arg = <<>>,
                                    ![t].rest = Tail(call[t].rest)]
       ELSE /\ pc' = [pc EXCEPT ![t] = "idle"]
            /\ call' = [call EXCEPT ![t] = NoCallRunning]
    /\ ret' = [ret EXCEPT ![t] = <<>>]
    /\ UNCHANGED <<storeVars, histVars, handles, pending, calls,
                   cmdVars, loaderVars, response>>

NextThreads ==
    \/ \E h \in HandleIds : new(h)
    \/ \E h, h2 \in HandleIds : clone(h, h2)
    \/ \E t \in Threads, h \in HandleIds, name \in StoreNames \cup ReadNames :
          begin(t, h, name)
    \/ \E t \in Threads : lock(t)
    \/ \E t \in Threads : exec_write(t)
    \/ \E t \in Threads : exec_busy(t)
    \/ \E t \in Threads : exec_trigger(t)
    \/ \E t \in Threads : exec_read(t)
    \/ \E t \in Threads : unlock(t)

SpecThreads == Init /\ [][NextThreads]_vars

\* the calls of the threads when operations of several calls are among them
\* the threads share the handle the program opened first, and so its Mutex
LockNames == {"get_concept"}

NextLocks ==
    \/ \E t \in Threads, h \in HandleIds, name \in LockNames : begin(t, h, name)
    \/ \E t \in Threads, h \in HandleIds, op \in CompositeNames : begin_composite(t, h, op)
    \/ \E t \in Threads : lock(t)
    \/ \E t \in Threads : exec_write(t)
    \/ \E t \in Threads : exec_trigger(t)
    \/ \E t \in Threads : exec_read(t)
    \/ \E t \in Threads : unlock(t)

SpecLocks == Init /\ [][NextLocks]_vars

\* a thread that can take a step takes it; a thread that waits in Mutex::lock gets the
\* Mutex when it is free and stays free.  Every step of a thread changes its pc.
FairLocks ==
    \A t \in Threads :
        /\ WF_pc(lock(t))
        /\ WF_pc(exec_write(t))
        /\ WF_pc(exec_trigger(t))
        /\ WF_pc(exec_read(t))
        /\ WF_pc(unlock(t))

SpecLocksFair == SpecLocks /\ FairLocks

(***************************************************************************)
(* Round trip of single values through store and get                       *)
(***************************************************************************)
MaxRoundTripStores == 1

Example2 == [title |-> "fix", code |-> "clone", explanation |-> "copied"]

StrLists == {<<>>, <<"a">>, <<"b">>, <<"a", "a">>, <<"a", "b">>, <<"b", "a">>}

ExampleLists == {<<>>, <<Example1>>, <<Example1, Example2>>, <<Example2, Example1>>}

RoundTripConcepts ==
    { [id |-> "c1", topic |-> <<"own">>, title |-> <<"move">>, explanation |-> <<>>,
       code_examples |-> ce, common_mistakes |-> cm, related_concepts |-> rc,
       tags |-> tg] : ce \in ExampleLists, cm \in {<<>>, <<"use">>},
                      rc \in {<<>>, <<"b", "a">>}, tg \in StrLists }

RoundTripPatterns ==
    { [id |-> "p1", name |-> <<"builder">>, description |-> <<"step">>,
       template |-> <<"impl">>, when_to_use |-> <<>>, when_not_to_use |-> <<"few">>,
       examples |-> ex] : ex \in ExampleLists }

RoundTripErrors ==
    { [error_code |-> "E0382", title |-> <<"moved">>, explanation |-> <<"use">>,
       example_bad |-> <<"let">>, example_good |-> <<>>, fix_strategies |-> fs]
      : fs \in StrLists }

StoredCount == count_concepts(concepts) + count_patterns(patterns) + count_errors(errors)

NextRoundTrip ==
    /\ StoredCount < MaxRoundTripStores
    /\ \/ \E c \in RoundTripConcepts : store_concept(c)
       \/ \E p \in RoundTripPatterns : store_pattern(p)
       \/ \E e \in RoundTripErrors : store_error(e)

SpecRoundTrip == Init /\ [][NextRoundTrip]_vars

(***************************************************************************)
(* Loading the knowledge directory, storing commands and fetching          *)
(***************************************************************************)
MaxLoads == 2
MaxStoreCommands == 1

\* what a file of a knowledge directory may hold
FileContents(name) ==
    IF name = "rust_core_concepts.json"
    THEN {Malformed, "small_concepts", "big_concepts", "twin_concepts"}
    ELSE IF name = "rust_patterns_idioms.json"
    THEN {Malformed, "small_patterns", "big_patterns", "twin_patterns"}
    ELSE {Malformed, "toolchain_commands"}

Requests ==
    {Request("explain_concept", "", "sem"), Request("find_pattern", "", "step"),
     Request("explain_error", "", "E0382"), Request("find_command", "cargo", ""),
     Request("search", "", "sem"), Request("search", "", "NOT")}

\* the number of commands the loads so far have stored
RECURSIVE LoadedCommands(_)
LoadedCommands(records) ==
    IF records = <<>> THEN 0
    ELSE (records[1].ids_after - records[1].ids_before) + LoadedCommands(Tail(records))

\* the ids of the rows the table now holds and the table was did not, ascending
NewIds(was, now) ==
    LET rows == ById(now \ was) IN [i \in 1..Len(rows) |-> rows[i].id]

\* a knowledge directory: what each of its three files holds
Directory(c, p, m) ==
    [name \in FileNames |->
        IF name = "rust_core_concepts.json" THEN c
        ELSE IF name = "rust_patterns_idioms.json" THEN p
        ELSE m]

\* the directories the loader is pointed at
Directories ==
    {Directory(Absent, Absent, Absent),
     Directory("small_concepts", "small_patterns", "toolchain_commands"),
     Directory("big_concepts", "big_patterns", Absent),
     Directory("twin_concepts", "twin_patterns", Absent),
     Directory(Absent, "small_patterns", "toolchain_commands"),
     Directory(Malformed, Absent, "toolchain_commands"),
     Directory("small_concepts", Malformed, "toolchain_commands"),
     Directory("small_concepts", Absent, Malformed)}

\* KnowledgeLoader::load_all_from_directory, the whole call
load_all_from_directory(dir) ==
    /\ Len(loads) < MaxLoads
    /\ \E r \in {LoadDirectory(Store, dir)} :
          /\ concepts' = r.store.concepts
          /\ concepts_fts' = r.store.concepts_fts
          /\ patterns' = r.store.patterns
          /\ patterns_fts' = r.store.patterns_fts
          /\ errors' = r.store.errors
          /\ commands' = r.store.commands
          /\ command_ids' = command_ids \o NewIds(commands, r.store.commands)
          /\ loads' = Append(loads,
                             [files |-> dir, result |-> r.result,
                              ids_before |-> Len(command_ids),
                              ids_after |-> Len(command_ids)
                                               + Len(NewIds(commands, r.store.commands))])
    /\ response' = None
    /\ UNCHANGED <<schema, histVars, threadVars, slug>>

\* KnowledgeDatabase::store_command called directly
store_command(c) ==
    /\ Len(command_ids) - LoadedCommands(loads) < MaxStoreCommands
    /\ commands' = InsertCommand(commands, c)
    /\ command_ids' = Append(command_ids, last_insert_rowid(commands))
    /\ response' = None
    /\ UNCHANGED <<storeVars, histVars, threadVars, loaderVars>>

\* KnowledgeFetcher::fetch
fetch(request) ==
    /\ response' = Some(KnowledgeResponse(Store, request))
    /\ UNCHANGED <<storeVars, histVars, threadVars, cmdVars, loaderVars>>

NextLoader ==
    \/ \E dir \in Directories : load_all_from_directory(dir)
    \/ \E c \in {x \in CommandInputs : x.tool = "rustup"} : store_command(c)
    \/ \E request \in Requests : fetch(request)

SpecLoader == Init /\ [][NextLoader]_vars

(***************************************************************************)
(* KnowledgeQuery and KnowledgeFetcher on a store filled by store calls    *)
(***************************************************************************)
QueryCall(name, tool, text, limit) ==
    [name |-> name, tool |-> tool, text |-> text, limit |-> limit]

\* one call of each operation of KnowledgeQuery; the search for NOT is an FTS5 syntax
\* error and fails
QueryCalls ==
    {QueryCall("search_concepts", "", "sem", 10),
     QueryCall("search_concepts_limit", "", "sem", 1),
     QueryCall("get_concept", "", "c1", 0),
     QueryCall("search_by_topic", "", <<"own">>, 0),
     QueryCall("find_patterns", "", "NOT", 10),
     QueryCall("find_patterns_limit", "", "many", 1),
     QueryCall("get_pattern", "", "p1", 0),
     QueryCall("explain_error", "", "E0382", 0),
     QueryCall("search_commands", "rustup", "sem", 0),
     QueryCall("get_tool_commands", "rustup", "", 0),
     QueryCall("search_all", "", "sem", 0)}

\* the result of the operation q.name of KnowledgeQuery on the store v
QueryResult(v, q) ==
    IF q.name = "search_concepts" THEN search_concepts(v.concepts, v.concepts_fts, q.text)
    ELSE IF q.name = "search_concepts_limit"
         THEN search_concepts_limit(v.concepts, v.concepts_fts, q.text, q.limit)
    ELSE IF q.name = "get_concept" THEN get_concept(v.concepts, q.text)
    ELSE IF q.name = "search_by_topic" THEN search_by_topic(v.concepts, q.text)
    ELSE IF q.name = "find_patterns" THEN find_patterns(v.patterns, v.patterns_fts, q.text)
    ELSE IF q.name = "find_patterns_limit"
         THEN find_patterns_limit(v.patterns, v.patterns_fts, q.text, q.limit)
    ELSE IF q.name = "get_pattern" THEN get_pattern(v.patterns, q.text)
    ELSE IF q.name = "explain_error" THEN explain_error(v.errors, q.text)
    ELSE IF q.name = "search_commands" THEN search_commands(v.commands, q.tool, q.text)
    ELSE IF q.name = "get_tool_commands" THEN get_tool_commands(v.commands, q.tool)
    ELSE search_all(v, q.text)

\* a query that removes what it has found from the errors
knowledge_query_Consuming(q) ==
    /\ response' = Some(<<"KnowledgeQuery", q, QueryResult(Store, q)>>)
    /\ errors' = IF q.name = "explain_error"
                 THEN errors \ Conflicts(errors, "error_code", q.text)
                 ELSE errors
    /\ UNCHANGED <<concepts, concepts_fts, patterns, patterns_fts, schema, histVars,
                   threadVars, cmdVars, loaderVars>>

\* a call of an operation of KnowledgeQuery: SELECT statements only
knowledge_query(q) ==
    /\ response' = Some(<<"KnowledgeQuery", q, QueryResult(Store, q)>>)
    /\ UNCHANGED <<storeVars, histVars, threadVars, cmdVars, loaderVars>>

QueryRequests ==
    {Request("explain_concept", "", "sem"), Request("find_pattern", "", "many"),
     Request("explain_error", "", "E0382"), Request("explain_error", "", "E0499"),
     Request("find_command", "rustup", "sem"), Request("search", "", "sem")}

\* the values stored before the queries: a concept, a pattern and two errors
QueryStoreInputs(name) ==
    IF name = "store_concept"
    THEN {c \in ConceptInputs : c.id = "c1" /\ c.topic = <<"own">>}
    ELSE IF name = "store_pattern"
         THEN {p \in PatternInputs : p.id = "p1" /\ p.name = <<"builder">>}
    ELSE {e \in ErrorInputs : e.title = <<"moved">> \/ e.error_code = "E0499"}

NextQuery ==
    \/ \E c \in QueryStoreInputs("store_concept") : store_concept(c)
    \/ \E p \in QueryStoreInputs("store_pattern") : store_pattern(p)
    \/ \E e \in QueryStoreInputs("store_error") : store_error(e)
    \/ \E c \in {x \in CommandInputs : x.tool = "rustup"} : store_command(c)
    \/ \E q \in QueryCalls : knowledge_query(q)
    \/ \E request \in QueryRequests : fetch(request)

SpecQuery == Init /\ [][NextQuery]_vars

(***************************************************************************)
(* A load and the queries of another thread, call by call                  *)
(***************************************************************************)
\* the store calls load_... makes for a file, in order: none when the file is absent
StepsOfFile(name, content) ==
    LET data == ReadDocument(content)
        values == IF IsOk(data) THEN ValuesOfDocument(KindOf(name), data[2]) ELSE <<>>
    IN [i \in 1..Len(values) |-> [kind |-> KindOf(name), value |-> values[i]]]

\* the store calls of load_all_from_directory on a directory whose files parse
LoadSteps(dir) ==
    StepsOfFile("rust_core_concepts.json", dir["rust_core_concepts.json"])
        \o StepsOfFile("rust_patterns_idioms.json", dir["rust_patterns_idioms.json"])
        \o StepsOfFile("rust_toolchain_cargo.json", dir["rust_toolchain_cargo.json"])

\* the store v after the store calls steps
RECURSIVE StoreSteps(_, _)
StoreSteps(v, steps) ==
    IF steps = <<>> THEN v
    ELSE StoreSteps(StoreAll(v, steps[1].kind, <<steps[1].value>>), Tail(steps))

RaceDirectories ==
    {Directory("small_concepts", "small_patterns", "toolchain_commands"),
     Directory("twin_concepts", "twin_patterns", Absent)}

\* the loader thread and the thread of the queries
Loader == "t1"
Reader == "t2"

\* the loader thread calls load_all_from_directory
load_begin(dir) ==
    /\ pc[Loader] = "idle"
    /\ call' = [call EXCEPT
                  ![Loader] = [op |-> "load_all_from_directory", name |-> "store",
                               h |-> "db", arg |-> dir, rest |-> LoadSteps(dir)]]
    /\ pc' = [pc EXCEPT ![Loader] = "loading"]
    /\ UNCHANGED <<storeVars, histVars, handles, mutex, pending, ret, calls,
                   cmdVars, loaderVars, response>>

\* the next store call of the load loops: lock, one INSERT statement with its
\* triggers, unlock
load_step ==
    /\ pc[Loader] = "loading"
    /\ call[Loader].rest # <<>>
    /\ \E v \in {StoreSteps(Store, <<Head(call[Loader].rest)>>)} :
          /\ concepts' = v.concepts
          /\ concepts_fts' = v.concepts_fts
          /\ patterns' = v.patterns
          /\ patterns_fts' = v.patterns_fts
          /\ commands' = v.commands
          /\ command_ids' = command_ids \o NewIds(commands, v.commands)
    /\ call' = [call EXCEPT ![Loader].rest = Tail(call[Loader].rest)]
    /\ UNCHANGED <<errors, schema, histVars, handles, mutex, pending, pc, ret, calls,
                   loaderVars, response>>

\* load_all_from_directory returns
load_return ==
    /\ pc[Loader] = "loading"
    /\ call[Loader].rest = <<>>
    /\ pc' = [pc EXCEPT ![Loader] = "done"]
    /\ UNCHANGED <<storeVars, histVars, handles, mutex, pending, call, ret, calls,
                   cmdVars, loaderVars, response>>

\* the calls of the operations of KnowledgeQuery that run one statement
RaceCalls ==
    {QueryCall("search_concepts", "", "sem", 10),
     QueryCall("find_patterns", "", "sem", 10),
     QueryCall("search_by_topic", "", <<"own">>, 0),
     QueryCall("search_commands", "cargo", "sem", 0),
     QueryCall("get_tool_commands", "cargo", "", 0)}

RaceSearch == QueryCall("search_all", "", "sem", 0)

\* search_all: its first call, search_concepts_limit(query, 5)?
search_all_first ==
    /\ pc[Reader] = "idle"
    /\ \E cs \in {search_concepts_limit(concepts, concepts_fts, RaceSearch.text, 5)} :
          IF IsOk(cs)
          THEN /\ ret' = [ret EXCEPT ![Reader] = cs]
               /\ pc' = [pc EXCEPT ![Reader] = "second"]
               /\ UNCHANGED response
          ELSE /\ response' = Some(<<"KnowledgeQuery", RaceSearch, cs>>)
               /\ UNCHANGED <<pc, ret>>
    /\ UNCHANGED <<storeVars, histVars, handles, mutex, pending, call, calls,
                   cmdVars, loaderVars>>

\* search_all: its second call, find_patterns_limit(query, 5)?, and the return
search_all_second ==
    /\ pc[Reader] = "second"
    /\ \E ps \in {find_patterns_limit(patterns, patterns_fts, RaceSearch.text, 5)} :
          response' = Some(<<"KnowledgeQuery", RaceSearch,
                             IF IsOk(ps) THEN Ok(SearchResults(ret[Reader][2], ps[2], <<>>))
                             ELSE ps>>)
    /\ pc' = [pc EXCEPT ![Reader] = "idle"]
    /\ ret' = [ret EXCEPT ![Reader] = <<>>]
    /\ UNCHANGED <<storeVars, histVars, handles, mutex, pending, call, calls,
                   cmdVars, loaderVars>>

NextRace ==
    \/ \E dir \in RaceDirectories : load_begin(dir)
    \/ load_step
    \/ load_return
    \/ \E q \in RaceCalls : pc[Reader] = "idle" /\ knowledge_query(q)
    \/ search_all_first
    \/ search_all_second

SpecRace == Init /\ [][NextRace]_vars

(***************************************************************************)
(* slugify on its own                                                      *)
(***************************************************************************)
MaxSlugLen == 3

\* BoldA stands for a letter that is upper-case and has no lower-case form, such as
\* U+1D400 MATHEMATICAL BOLD CAPITAL A: char::is_alphanumeric and char::is_uppercase
\* hold for it and to_lowercase leaves it as it is
UncasedUpper == {"BoldA"}

SlugAlphabet == {"Move", "sem", "e0382", " ", "-", "_"} \cup UncasedUpper

\* the texts of up to MaxSlugLen words and separator characters
SlugInputs == UNION {[1..n -> SlugAlphabet] : n \in 0..MaxSlugLen}

\* slugify(s), and slugify of its result
slugify_call(text) ==
    /\ slug' = [input |-> text, once |-> slugify(text), twice |-> slugify(slugify(text))]
    /\ UNCHANGED <<storeVars, histVars, threadVars, cmdVars, loads, response>>

NextSlug == \E text \in SlugInputs : slugify_call(text)

SpecSlug == Init /\ [][NextSlug]_vars

(***************************************************************************)
(* The database file written from outside the program: a list column of a  *)
(* stored row is overwritten with text that is not the JSON of its field   *)
(***************************************************************************)
MaxBadBlobs == 1

\* the columns of a table that hold a serialized list
ListColumns(kind) ==
    IF kind = "concepts"
    THEN {"code_examples", "common_mistakes", "related_concepts", "tags"}
    ELSE IF kind = "patterns" THEN {"examples"}
    ELSE IF kind = "errors" THEN {"fix_strategies"}
    ELSE {"flags", "examples"}

\* an array cut short, and a string where a list is expected
BadBlobs == {<<P("["), S("a")>>, <<S("a")>>}

\* serde_json::from_str into the field type of the column
FromStr(kind, column, blob) ==
    IF column = "code_examples" \/ (kind = "patterns" /\ column = "examples")
    THEN from_str_examples(blob)
    ELSE IF column = "flags" THEN from_str_flags(blob)
    ELSE from_str_strs(blob)

\* the list columns of the row that do not parse
BadColumns(kind, row) ==
    {column \in ListColumns(kind) : ~IsOk(FromStr(kind, column, row[column]))}

\* the number of list columns in the table that do not parse
BadIn(kind, table) ==
    Cardinality({rc \in table \X ListColumns(kind) : rc[2] \in BadColumns(kind, rc[1])})

BadBlobCount ==
    BadIn("concepts", concepts) + BadIn("patterns", patterns)
        + BadIn("errors", errors) + BadIn("commands", commands)

\* UPDATE <kind> SET <column> = <blob> WHERE rowid = ..., run on the database file by
\* another program; the update triggers of the schema run with it
external_update(kind, column, blob) ==
    /\ BadBlobCount < MaxBadBlobs
    /\ \/ /\ kind = "concepts"
          /\ \E row \in concepts :
                /\ concepts' = (concepts \ {row}) \cup {[row EXCEPT ![column] = blob]}
                /\ concepts_fts' = concepts_au(concepts_fts, row,
                                               [row EXCEPT ![column] = blob])
          /\ UNCHANGED <<patterns, patterns_fts, errors, commands>>
       \/ /\ kind = "patterns"
          /\ \E row \in patterns :
                /\ patterns' = (patterns \ {row}) \cup {[row EXCEPT ![column] = blob]}
                /\ patterns_fts' = patterns_au(patterns_fts, row,
                                               [row EXCEPT ![column] = blob])
          /\ UNCHANGED <<concepts, concepts_fts, errors, commands>>
       \/ /\ kind = "errors"
          /\ \E row \in errors :
                errors' = (errors \ {row}) \cup {[row EXCEPT ![column] = blob]}
          /\ UNCHANGED <<concepts, concepts_fts, patterns, patterns_fts, commands>>
       \/ /\ kind = "commands"
          /\ \E row \in commands :
                commands' = (commands \ {row}) \cup {[row EXCEPT ![column] = blob]}
          /\ UNCHANGED <<concepts, concepts_fts, patterns, patterns_fts, errors>>
    /\ UNCHANGED <<schema, histVars, threadVars, command_ids, loaderVars, response>>

\* the values stored here: one of each kind, with lists that are not empty
BlobInputs(name) ==
    IF name = "store_concept" THEN {c \in StoreInputs(name) : c.tags # <<>>}
    ELSE IF name = "store_pattern" THEN {x \in StoreInputs(name) : x.examples # <<>>}
    ELSE IF name = "store_error" THEN {e \in StoreInputs(name) : e.fix_strategies # <<>>}
    ELSE {c \in CommandInputs : c.flags # <<>>}

NextBlobs ==
    \/ \E c \in BlobInputs("store_concept") : store_concept(c)
    \/ \E p \in BlobInputs("store_pattern") : store_pattern(p)
    \/ \E e \in BlobInputs("store_error") : store_error(e)
    \/ \E c \in BlobInputs("store_command") : store_command(c)
    \/ \E kind \in {"concepts", "patterns", "errors", "commands"} :
          \E column \in ListColumns(kind) : \E blob \in BadBlobs :
             external_update(kind, column, blob)

SpecBlobs == Init /\ [][NextBlobs]_vars

(***************************************************************************)
(* Properties                                                              *)
(***************************************************************************)

\* C1: after any sequence of store_concept and store_pattern calls, the rowids held in
\* concepts_fts are exactly the rowids of the rows of concepts, and the rowids held in
\* patterns_fts exactly those of patterns.
C1_IndexRowsEqualTableRows ==
    /\ DOMAIN concepts_fts = Rowids(concepts)
    /\ DOMAIN patterns_fts = Rowids(patterns)

\* the terms of the rows of a table other than the given row
OtherConceptTerms(table, row) == UNION {ConceptTerms(r) : r \in table \ {row}}
OtherPatternTerms(table, row) == UNION {PatternTerms(r) : r \in table \ {row}}

\* C2: a store call that replaces a row removes the index entry of the old row,
\* posts the new row under the new row's rowid and, after it, a search for a term
\* that only the replaced version held returns no record.
C2_ReplaceIsMirroredInIndex ==
    [][ /\ \A gone \in concepts \ concepts' :
              /\ gone.rowid \notin DOMAIN concepts_fts'
              /\ \A t \in ConceptTerms(gone) \ UNION {ConceptTerms(r) : r \in concepts'} :
                    search_concepts(concepts', concepts_fts', t) = Ok(<<>>)
        /\ \A added \in concepts' \ concepts :
              /\ added.rowid \in DOMAIN concepts_fts'
              /\ concepts_fts'[added.rowid] = ConceptTerms(added)
        /\ \A gone \in patterns \ patterns' :
              /\ gone.rowid \notin DOMAIN patterns_fts'
              /\ \A t \in PatternTerms(gone) \ UNION {PatternTerms(r) : r \in patterns'} :
                    find_patterns(patterns', patterns_fts', t) = Ok(<<>>)
        /\ \A added \in patterns' \ patterns :
              /\ added.rowid \in DOMAIN patterns_fts'
              /\ patterns_fts'[added.rowid] = PatternTerms(added)
      ]_vars

\* the part of C2 the code keeps: a search for a term that only replaced versions
\* held returns no record
ReplacedTermsFindNothing ==
    /\ \A r \in DOMAIN concepts_fts :
          \A t \in concepts_fts[r] \ UNION {ConceptTerms(row) : row \in concepts} :
              search_concepts(concepts, concepts_fts, t) = Ok(<<>>)
    /\ \A r \in DOMAIN patterns_fts :
          \A t \in patterns_fts[r] \ UNION {PatternTerms(row) : row \in patterns} :
              find_patterns(patterns, patterns_fts, t) = Ok(<<>>)

RowsWithKey(table, key, value) == Cardinality(Conflicts(table, key, value))

\* C4: each table holds exactly one row per key ever stored and none for the other
\* keys, and get_concept / get_pattern / get_error return the value of the latest
\* store call for the key.
C4_OneRowPerKeyLastWriteWins ==
    /\ \A id \in ConceptIds :
          /\ RowsWithKey(concepts, "id", id) = IF last_concept[id] = None THEN 0 ELSE 1
          /\ get_concept(concepts, id) = Ok(last_concept[id])
    /\ \A id \in PatternIds :
          /\ RowsWithKey(patterns, "id", id) = IF last_pattern[id] = None THEN 0 ELSE 1
          /\ get_pattern(patterns, id) = Ok(last_pattern[id])
    /\ \A code \in ErrorCodes :
          /\ RowsWithKey(errors, "error_code", code)
                = IF last_error[code] = None THEN 0 ELSE 1
          /\ get_error(errors, code) = Ok(last_error[code])

\* a concept, a pattern and an error have each been replaced by a different value
C4_Witness ==
    /\ \E id \in ConceptIds : \E r \in DOMAIN concepts_fts \ Rowids(concepts) :
          /\ last_concept[id] # None
          /\ concepts_fts[r] # ConceptTerms(CHOOSE row \in concepts : row.id = id)
    /\ \E r \in DOMAIN patterns_fts \ Rowids(patterns) : patterns # {}
    /\ prev.op = "store_error" /\ prev.seq = "other"

CountOf(op) ==
    IF op = "store_concept" THEN count_concepts(concepts)
    ELSE IF op = "store_pattern" THEN count_patterns(patterns)
    ELSE count_errors(errors)

DataOf(op) ==
    IF op = "store_concept" THEN Data(concepts)
    ELSE IF op = "store_pattern" THEN Data(patterns)
    ELSE errors

C6_RoundTrip ==
    /\ prev.op = "store_concept" => get_concept(concepts, prev.x.id) = Ok(Some(prev.x))
    /\ prev.op = "store_pattern" => get_pattern(patterns, prev.x.id) = Ok(Some(prev.x))
    /\ prev.op = "store_error" => get_error(errors, prev.x.error_code) = Ok(Some(prev.x))

\* a concept with two code examples, an empty list and a two-element tag list in
\* non-alphabetical order has been stored
C6_Witness ==
    /\ prev.op = "store_concept"
    /\ prev.x.code_examples = <<Example2, Example1>>
    /\ prev.x.common_mistakes = <<>>
    /\ prev.x.tags = <<"b", "a">>
    /\ concepts # {}

\* the query holds a term of the text
Matches(query, text) == Fold(query) \in TextTerms(text)

Ids(records) == {records[i].id : i \in 1..Len(records)}

\* C9: a search whose query is a well-formed FTS5 query that matches every stored
\* title, and whose limit is at least the row count, returns exactly one record per
\* stored id.
C9_SearchAgreesWithCount ==
    /\ \A q \in Words \ Fts5Reserved : \A extra \in 0..1 :
          (\A r \in concepts : Matches(q, r.title)) =>
              LET res == search_concepts_limit(concepts, concepts_fts, q,
                                               count_concepts(concepts) + extra)
              IN /\ IsOk(res)
                 /\ Len(res[2]) = count_concepts(concepts)
                 /\ Ids(res[2]) = {r.id : r \in concepts}
    /\ \A q \in Words \ Fts5Reserved : \A extra \in 0..1 :
          (\A r \in patterns : Matches(q, r.name) \/ Matches(q, r.when_to_use)) =>
              LET res == find_patterns_limit(patterns, patterns_fts, q,
                                             count_patterns(patterns) + extra)
              IN /\ IsOk(res)
                 /\ Len(res[2]) = count_patterns(patterns)
                 /\ Ids(res[2]) = {r.id : r \in patterns}

\* two concepts are stored, one of them re-stored with another title, and so are
\* two patterns
C9_Witness ==
    /\ count_concepts(concepts) = 2
    /\ DOMAIN concepts_fts # Rowids(concepts)
    /\ \E r \in DOMAIN concepts_fts \ Rowids(concepts) :
          \E row \in concepts : ~(concepts_fts[r] \subseteq ConceptTerms(row)) 
    /\ count_patterns(patterns) = 2

\* the words of the text a concept is indexed by
ConceptWords(c) ==
    Range(c.topic) \cup Range(c.title) \cup Range(c.explanation) \cup Range(c.tags)

\* C10: while a stored concept is not replaced, search_concepts for a word of its
\* topic, title, explanation or tags returns a list that contains it, provided no
\* more than 10 stored concepts hold the word.
C10_SearchRecall ==
    \A id \in ConceptIds :
        last_concept[id] # None =>
            \A t \in ConceptWords(last_concept[id][2]) :
                LET res == search_concepts(concepts, concepts_fts, t)
                IN /\ IsOk(res)
                   /\ \E i \in 1..Len(res[2]) : res[2][i] = last_concept[id][2]

\* the same for the words that are not operators of the FTS5 query syntax
SearchRecallOfPlainWords ==
    \A id \in ConceptIds :
        last_concept[id] # None =>
            \A t \in ConceptWords(last_concept[id][2]) \ Fts5Reserved :
                LET res == search_concepts(concepts, concepts_fts, t)
                IN /\ IsOk(res)
                   /\ \E i \in 1..Len(res[2]) : res[2][i] = last_concept[id][2]

InCall(t) == pc[t] \in {"exec", "trigger", "unlock"}

\* the store v holds every statement's row write together with its index write
Whole(v) ==
    /\ \A r \in v.concepts :
          r.rowid \in DOMAIN v.concepts_fts /\ v.concepts_fts[r.rowid] = ConceptTerms(r)
    /\ \A r \in DOMAIN v.concepts_fts : r < NewRowid(v.concepts)
    /\ \A r \in v.patterns :
          r.rowid \in DOMAIN v.patterns_fts /\ v.patterns_fts[r.rowid] = PatternTerms(r)
    /\ \A r \in DOMAIN v.patterns_fts : r < NewRowid(v.patterns)

\* C3: a read issued through a clone of the handle a store runs on never looks at a
\* store that holds the row write of a statement without its index write, or the
\* index write without the row write.
C3_ReadsSeeWholeStatements ==
    \A t \in Threads :
        (pc[t] = "unlock" /\ call[t].name \in ReadNames) => Whole(ret[t][2])

\* a store_concept that replaces a row has written the row and not yet the index,
\* while a search through a clone of its handle waits for the Mutex
C3_Witness ==
    \E w, r \in Threads :
        /\ pc[w] = "trigger" /\ call[w].name = "store_concept"
        /\ concepts # {}
        /\ ~Whole(pending[ConnOf(w)][1])
        /\ pc[r] = "lock" /\ call[r].name = "search_concepts_limit"
        /\ call[r].h # call[w].h /\ ConnOf(r) = ConnOf(w)

C8_OneMutexPerLocation ==
    \A t, u \in Threads : (t # u /\ InCall(t)) => ~InCall(u)

\* the part of C8 the code keeps: handles obtained by clone() share the Mutex
ClonesSerialise ==
    \A t, u \in Threads :
        (t # u /\ InCall(t) /\ InCall(u)) => handles[call[t].h] # handles[call[u].h]

\* C11: search_concepts_limit returns its matches most-relevant first: no returned
\* concept ranks strictly better for the query than one returned before it, and no
\* matching concept cut off by the limit ranks strictly better than a returned one.
C11_MostRelevantFirst ==
    \A q \in Words \ Fts5Reserved : \A limit \in {1, 10} :
        LET res == search_concepts_limit(concepts, concepts_fts, q, limit)
            all == search_concepts_limit(concepts, concepts_fts, q,
                                         count_concepts(concepts))
            row(rec) == ConceptRow(0, rec)
        IN /\ \A i, j \in 1..Len(res[2]) :
                 i < j => ~Bm25Better(row(res[2][j]), row(res[2][i]), q)
           /\ \A k \in 1..Len(all[2]) : \A i \in 1..Len(res[2]) :
                 k > Len(res[2]) => ~Bm25Better(row(all[2][k]), row(res[2][i]), q)

\* the part of C11 the code keeps: the matches come in the order of their rowids
MatchesComeInRowidOrder ==
    \A q \in Words \ Fts5Reserved :
        LET res == search_concepts_limit(concepts, concepts_fts, q, 10)
            rowid(rec) == (CHOOSE r \in concepts : r.id = rec.id).rowid
        IN \A i, j \in 1..Len(res[2]) : i < j => rowid(res[2][i]) < rowid(res[2][j])

(***************************************************************************)
(* Properties of the loaded store                                          *)
(***************************************************************************)
\* the search texts and the limits the properties below go through
Queries == {"sem", "step", "NOT"}

Limits == {0, 1, 5, 10}

\* C12: search_concepts_limit and find_patterns_limit never return more records than
\* the limit they are given, and search_concepts and find_patterns, which pass the
\* default limit, never return more than 10.
C12_NeverMoreThanLimit ==
    \A q \in Queries :
        /\ \A limit \in Limits :
              /\ \E c \in {search_concepts_limit(concepts, concepts_fts, q, limit)} :
                    IsOk(c) => Len(c[2]) <= limit
              /\ \E p \in {find_patterns_limit(patterns, patterns_fts, q, limit)} :
                    IsOk(p) => Len(p[2]) <= limit
        /\ \E c \in {search_concepts(concepts, concepts_fts, q)} :
              IsOk(c) => Len(c[2]) <= 10
        /\ \E p \in {find_patterns(patterns, patterns_fts, q)} :
              IsOk(p) => Len(p[2]) <= 10

\* more than 10 concepts and more than 10 patterns match, and the default limit cuts
\* both results to 10
C12_Witness ==
    /\ Len(search_concepts_limit(concepts, concepts_fts, "sem", 11)[2]) = 11
    /\ Len(find_patterns_limit(patterns, patterns_fts, "sem", 11)[2]) = 11
    /\ Len(search_concepts(concepts, concepts_fts, "sem")[2]) = 10
    /\ Len(find_patterns(patterns, patterns_fts, "sem")[2]) = 10

\* C13: search_all returns the concepts of search_concepts_limit with limit 5 and the
\* patterns of find_patterns_limit with limit 5 for the same text, at most 5 of each,
\* and no commands at all, whatever the commands table holds: at most 10 in total.
C13_SearchAllIsTwoSearchesOfFive ==
    /\ \A q \in Queries :
          \E r \in {search_all(Store, q)} :
          \E c \in {search_concepts_limit(concepts, concepts_fts, q, 5)} :
          \E p \in {find_patterns_limit(patterns, patterns_fts, q, 5)} :
             IF IsOk(c) /\ IsOk(p)
             THEN /\ IsOk(r)
                  /\ r[2].concepts = c[2] /\ Len(r[2].concepts) <= 5
                  /\ r[2].patterns = p[2] /\ Len(r[2].patterns) <= 5
                  /\ r[2].commands = <<>>
                  /\ total(r[2]) <= 10
             ELSE ~IsOk(r)
    /\ (response # None /\ IsOk(response[2]) /\ response[2][2].request.type = "search")
          => /\ response[2] = KnowledgeResponse(Store, response[2][2].request)
             /\ response[2][2].results.commands = <<>>
             /\ total(response[2][2].results) <= 10

\* a search answered with 5 concepts and 5 patterns out of more, and without the
\* stored command whose description holds the text
C13_Witness ==
    /\ response # None /\ IsOk(response[2])
    /\ response[2][2].request = Request("search", "", "sem")
    /\ Len(response[2][2].results.concepts) = 5
    /\ Len(response[2][2].results.patterns) = 5
    /\ Len(search_concepts(concepts, concepts_fts, "sem")[2]) > 5
    /\ Len(find_patterns(patterns, patterns_fts, "sem")[2]) > 5
    /\ \E row \in commands : Like(row.description, "sem")
    /\ response[2][2].results.commands = <<>>

\* the totals the confidence is computed for
MaxTotal == 12

\* the f32 of the decimal the score is listed with for a total
ListedConfidence(n) ==
    IF n = 0 THEN F32Literal(0)
    ELSE IF n >= 5 THEN F32Literal(90)
    ELSE F32Literal(50 + 8 * n)

\* C14: the confidence of a response is a function of the total number of results
\* alone: 0.0 for 0, 0.9 for 5 or more, and for 1 to 4 the single-precision value of
\* 0.5 + total * 0.08, which is within one unit in the last place of 0.58, 0.66,
\* 0.74, 0.82; it never decreases as the total grows and lies in [0.0, 0.9].
C14_ConfidenceOfTotal ==
    /\ (response # None /\ IsOk(response[2]))
          => \E n \in {total(response[2][2].results)} :
                /\ response[2][2].confidence = calculate_confidence(n)
                /\ response[2][2].confidence - ListedConfidence(n) \in -8..8
                /\ (n = 0 \/ n >= 5) => response[2][2].confidence = ListedConfidence(n)
    /\ \A n \in 0..MaxTotal :
          /\ n = 0 => calculate_confidence(n) = 0
          /\ n >= 5 => calculate_confidence(n) = F32Literal(90)
          /\ n \in 1..4 =>
                calculate_confidence(n) - ListedConfidence(n)
                    \in (0 - Ulp(ListedConfidence(n)))..Ulp(ListedConfidence(n))
          /\ calculate_confidence(n) >= 0
          /\ calculate_confidence(n) <= F32Literal(90)
          /\ \A k \in 0..n : calculate_confidence(k) <= calculate_confidence(n)

\* C14 as stated: for 1 to 4 results the confidence is 0.58, 0.66, 0.74, 0.82
C14_ListedDecimals ==
    (response # None /\ IsOk(response[2]))
        => response[2][2].confidence = ListedConfidence(total(response[2][2].results))

\* a response with two results, whose confidence is the f32 next to 0.66
C14_Witness ==
    /\ response # None /\ IsOk(response[2])
    /\ total(response[2][2].results) = 2
    /\ response[2][2].confidence = ListedConfidence(2) - Ulp(ListedConfidence(2))

\* the loads that had the commands file f in place and succeeded
LoadsOf(f) ==
    {i \in 1..Len(loads) :
        loads[i].files["rust_toolchain_cargo.json"] = f /\ IsOk(loads[i].result)}

\* C18: store_command only ever inserts: count_commands is the number of
\* store_command calls that succeeded, the ids they returned are all different, and
\* every load of the same commands file adds the file's number of commands again, so
\* that two loads into an empty table leave twice the count of one load.
C18_StoreCommandOnlyInserts ==
    /\ count_commands(commands) = Len(command_ids)
    /\ \A i, j \in 1..Len(command_ids) : i # j => command_ids[i] # command_ids[j]
    /\ {row.id : row \in commands} = Range(command_ids)
    /\ \A f \in FileContents("rust_toolchain_cargo.json") \ {Malformed} :
          /\ \A i \in LoadsOf(f) :
                /\ loads[i].ids_after - loads[i].ids_before = loads[i].result[2].commands
                /\ loads[i].result[2].commands
                      = Len(CommandsOfDocument(from_str_value(f)[2]))
          /\ (LoadsOf(f) = {1, 2} /\ Len(command_ids) = LoadedCommands(loads))
                => count_commands(commands) = 2 * loads[1].result[2].commands

\* the commands file loaded twice into an empty table: every command is there twice
C18_Witness ==
    /\ LoadsOf("toolchain_commands") = {1, 2}
    /\ loads[1].result[2].commands = 4
    /\ count_commands(commands) = 8
    /\ command_ids = <<1, 2, 3, 4, 5, 6, 7, 8>>
    /\ \A row \in commands : \E other \in commands :
          other.id # row.id /\ [other EXCEPT !.id = row.id] = row

\* C19: load_all_from_directory takes a file that is absent as a contribution of 0
\* and loads the files that are there; a file that is there and is not valid JSON
\* makes the call return an error.
C19_AbsentFilesAreSkipped ==
    \A i \in 1..Len(loads) :
        \E dir \in {loads[i].files} : \E result \in {loads[i].result} :
            IF \E name \in FileNames : dir[name] = Malformed
            THEN ~IsOk(result)
            ELSE /\ IsOk(result)
                 /\ \A name \in FileNames :
                       result[2][KindOf(name)] =
                           IF dir[name] = Absent THEN 0
                           ELSE Len(ValuesOfDocument(KindOf(name),
                                                     from_str_value(dir[name])[2]))
                 /\ result[2].errors = 0

\* a load with one file absent and the two others loaded, then a load that fails on
\* that file
C19_Witness ==
    /\ Len(loads) = 2
    /\ loads[1].files["rust_core_concepts.json"] = Absent
    /\ loads[1].result = Ok(LoadStats(0, 2, 0, 4))
    /\ count_patterns(patterns) = 2 /\ count_commands(commands) >= 4
    /\ loads[2].files["rust_core_concepts.json"] = Malformed
    /\ ~IsOk(loads[2].result)

\* C20: the id the loader stores a concept under is the slug of the module id, a
\* hyphen and the slug of the concept name; the module id is the concept's topic and
\* the concept name its title.
C20_ConceptIdsAreSlugs ==
    \A row \in concepts :
        row.id = slugify(row.topic) \o <<"-">> \o slugify(row.title)

(***************************************************************************)
(* Properties of the lookups by key                                        *)
(***************************************************************************)
GetNames == {"get_concept", "get_pattern", "get_error", "explain_error"}

\* the store v holds no row under the key the lookup asks for
KeyAbsent(v, name, key) ==
    IF name = "get_concept" THEN \A row \in v.concepts : row.id # key
    ELSE IF name = "get_pattern" THEN \A row \in v.patterns : row.id # key
    ELSE \A row \in v.errors : row.error_code # key

\* C15: get_concept, get_pattern, get_error and explain_error leave the store as it
\* is, and called with a key the store does not hold they return Ok(None), not an
\* error.
C15_AbsentKeyIsNone ==
    [][\A t \in Threads :
          (pc[t] = "exec" /\ pc'[t] = "unlock" /\ call[t].name \in GetNames)
              => /\ UNCHANGED <<storeVars, cmdVars>>
                 /\ KeyAbsent(ret'[t][2], call[t].name, call'[t].arg)
                       => ret'[t][1] = Ok(None)]_vars

\* each of the four lookups has returned Ok(None) for a key that is not there, one
\* of them from a table that holds another key
AbsentAnswered(t, name) ==
    /\ pc[t] = "unlock" /\ call[t].name = name
    /\ KeyAbsent(ret[t][2], name, call[t].arg)
    /\ ret[t][1] = Ok(None)

C15_Witness ==
    \E t \in Threads :
        /\ AbsentAnswered(t, "get_concept")
        /\ call[t].arg = "c2" /\ ret[t][2].concepts # {}
        /\ \E u \in Threads : AbsentAnswered(u, "explain_error")

(***************************************************************************)
(* Properties of reading back a list column that does not parse            *)
(***************************************************************************)
\* the columns of the row that parse are the ones the last store of its key wrote
AsStored(kind, row, written) ==
    \A column \in DOMAIN written \ ({"rowid"} \cup BadColumns(kind, row)) :
        row[column] = written[column]

\* C16: when a list column of the row of a key does not parse, get_concept,
\* get_pattern and get_error return an error, which is neither the absent result nor
\* a record with an empty list in the place of the column; the row is still the one
\* row of its key and its other columns are as they were stored.
C16_BadBlobIsAnError ==
    /\ \A row \in concepts : BadColumns("concepts", row) # {} =>
          /\ \E g \in {get_concept(concepts, row.id)} :
                /\ ~IsOk(g)
                /\ g # Ok(None)
                /\ g # Ok(Some(ConceptOfRowOrDefault(row)))
          /\ Conflicts(concepts, "id", row.id) = {row}
          /\ AsStored("concepts", row, ConceptRow(0, last_concept[row.id][2]))
    /\ \A row \in patterns : BadColumns("patterns", row) # {} =>
          /\ \E g \in {get_pattern(patterns, row.id)} :
                /\ ~IsOk(g)
                /\ g # Ok(None)
                /\ g # Ok(Some(PatternOfRowOrDefault(row)))
          /\ Conflicts(patterns, "id", row.id) = {row}
          /\ AsStored("patterns", row, PatternRow(0, last_pattern[row.id][2]))
    /\ \A row \in errors : BadColumns("errors", row) # {} =>
          /\ \E g \in {get_error(errors, row.error_code)} :
                /\ ~IsOk(g)
                /\ g # Ok(None)
          /\ Conflicts(errors, "error_code", row.error_code) = {row}
          /\ AsStored("errors", row, ErrorRow(last_error[row.error_code][2]))

\* a stored concept whose tags column was overwritten: get_concept fails
C16_Witness ==
    \E row \in concepts :
        /\ last_concept[row.id] # None
        /\ BadColumns("concepts", row) = {"tags"}
        /\ get_concept(concepts, row.id) = Err("json")

\* C17: every read operation that decodes a row with a list column that does not
\* parse returns an error: search_concepts_limit, search_by_topic,
\* find_patterns_limit, search_commands and get_tool_commands return no record made
\* from such a row.
C17_ReadsPropagateBadBlobs ==
    /\ \A row \in concepts : BadColumns("concepts", row) # {} =>
          /\ ~IsOk(search_by_topic(concepts, row.topic))
          /\ \A q \in Words \ Fts5Reserved :
                row.rowid \in Fts5Match(concepts_fts, q)[2]
                    => ~IsOk(search_concepts_limit(concepts, concepts_fts, q, 10))
    /\ \A row \in patterns : BadColumns("patterns", row) # {} =>
          \A q \in Words \ Fts5Reserved :
              row.rowid \in Fts5Match(patterns_fts, q)[2]
                  => ~IsOk(find_patterns_limit(patterns, patterns_fts, q, 10))
    /\ \A row \in commands : BadColumns("commands", row) # {} =>
          /\ ~IsOk(get_tool_commands(commands, row.tool))
          /\ \A keyword \in {"build", "update", "sem"} :
                (Like(row.command, keyword) \/ Like(row.description, keyword))
                    => ~IsOk(search_commands(commands, row.tool, keyword))

(***************************************************************************)
(* Properties of slugify                                                   *)
(***************************************************************************)
\* no hyphen at either end and no two hyphens in a row
HyphensSingle(text) ==
    /\ text # <<>> => (text[1] # "-" /\ text[Len(text)] # "-")
    /\ \A i \in 1..(Len(text) - 1) : ~(text[i] = "-" /\ text[i + 1] = "-")

FirstLoadDone == Len(loads) = 1 /\ IsOk(loads[1].result)

\* the values the loader built from a file of the first load
FirstLoaded(name) ==
    IF exists(loads[1].files[name])
    THEN ValuesOfDocument(KindOf(name), from_str_value(loads[1].files[name])[2])
    ELSE <<>>

\* C22: after a concepts document is loaded into an empty store, the number of
\* concepts the loader reports equals count_concepts().
C22_ReportedCountIsRowCount ==
    FirstLoadDone => loads[1].result[2].concepts = count_concepts(concepts)

\* what holds of the count: it is the number of concept elements of the document,
\* and the table holds one row per id among them
ReportedCountIsElementCount ==
    FirstLoadDone =>
        \E values \in {FirstLoaded("rust_core_concepts.json")} :
            /\ loads[1].result[2].concepts = Len(values)
            /\ count_concepts(concepts)
                  = Cardinality({values[i].id : i \in 1..Len(values)})

\* C23: two concept elements of a load whose module id or name differ, and two
\* pattern elements whose category name or name differ, get different ids, and the
\* record of each is in the store after the load.
C23_DifferentNamesDifferentIds ==
    FirstLoadDone =>
        /\ \E values \in {FirstLoaded("rust_core_concepts.json")} :
              /\ \A i, j \in 1..Len(values) :
                    (values[i].topic # values[j].topic \/ values[i].title # values[j].title)
                        => values[i].id # values[j].id
              /\ \A i \in 1..Len(values) :
                    \E row \in concepts :
                        row.topic = values[i].topic /\ row.title = values[i].title
        /\ \E values \in {FirstLoaded("rust_patterns_idioms.json")} :
              /\ \A i, j \in 1..Len(values) :
                    (values[i].when_to_use # values[j].when_to_use
                        \/ values[i].name # values[j].name)
                        => values[i].id # values[j].id
              /\ \A i \in 1..Len(values) :
                    \E row \in patterns :
                        row.when_to_use = values[i].when_to_use
                            /\ row.name = values[i].name

(***************************************************************************)
(* Properties of the queries and of the growth of the store                *)
(***************************************************************************)
\* a step that is a call of a KnowledgeQuery operation or of KnowledgeFetcher::fetch:
\* the only steps that leave a response that is new
AnswerStep == response' # None /\ response' # response

\* C24: no operation of KnowledgeQuery and no KnowledgeFetcher::fetch changes the
\* store: the four tables and the two indexes are the same before and after the call,
\* whether it returns Ok or Err.
C24_QueriesLeaveStore ==
    [][AnswerStep => UNCHANGED <<storeVars, commands>>]_vars

\* explain_error has returned the stored error from a store that holds records in all
\* four tables
C24_Witness ==
    /\ concepts # {} /\ patterns # {} /\ errors # {} /\ commands # {}
    /\ \E q \in QueryCalls :
          /\ q.name = "explain_error"
          /\ response = Some(<<"KnowledgeQuery", q, QueryResult(Store, q)>>)
          /\ QueryResult(Store, q) \notin {Ok(None)}

\* the lookup has returned a record
Found(result) == IsOk(result) /\ result[2] # None

\* C25: no operation deletes records: count_concepts, count_patterns, count_errors and
\* count_commands never decrease, and a key for which get_concept, get_pattern or
\* get_error returns a record still gets a record after any further operation.
C25_NothingIsDeleted ==
    [][/\ count_concepts(concepts') >= count_concepts(concepts)
       /\ count_patterns(patterns') >= count_patterns(patterns)
       /\ count_errors(errors') >= count_errors(errors)
       /\ count_commands(commands') >= count_commands(commands)
       /\ \A r \in concepts :
             Found(get_concept(concepts, r.id)) => Found(get_concept(concepts', r.id))
       /\ \A r \in patterns :
             Found(get_pattern(patterns, r.id)) => Found(get_pattern(patterns', r.id))
       /\ \A r \in errors :
             Found(get_error(errors, r.error_code))
                => Found(get_error(errors', r.error_code))]_vars

\* a store has replaced the record of a key while the table held a second key: the
\* count is what it was and both keys still return a record
C25_Witness ==
    /\ prev.op = "store_error" /\ prev.seq # "first"
    /\ count_errors(errors) = 2
    /\ \A code \in ErrorCodes : Found(get_error(errors, code))
    /\ Found(get_concept(concepts, "c1")) /\ Found(get_pattern(patterns, "p1"))
    /\ count_commands(commands) > 0

\* a step in which KnowledgeDatabase::new returns handle h with a connection of its own
Opened(h) ==
    /\ handles[h] = 0 /\ handles'[h] # 0
    /\ \A o \in HandleIds : handles[o] # handles'[h]

\* a step in which thread t runs the query of a read operation on a connection other
\* than the first
ReadsThroughLater(t) ==
    /\ pc[t] = "exec" /\ pc'[t] = "unlock"
    /\ call[t].name \in ReadNames
    /\ ConnOf(t) # handles["db"]

\* C26: opening a KnowledgeDatabase on a location that already holds a store is
\* idempotent: the open succeeds and creates no table, index or trigger, it leaves
\* the records and the index entries as they are, and a get or a search through the
\* new handle returns what the store holds, whichever handle stored it.
C26_ReopenIsIdempotent ==
    [][/\ init_schema(schema) = Ok(schema)
       /\ \A h \in HandleIds : Opened(h) => UNCHANGED <<storeVars, commands>>
       /\ \A t \in Threads :
             ReadsThroughLater(t)
                => ret'[t][1] = ReadResult(Committed, call[t].name, call'[t].arg)]_vars

\* the only call before this one is a store_concept through the first handle, which
\* has committed; a get_concept through a handle opened later has returned the record
C26_Witness ==
    /\ calls = 2
    /\ \E t, w \in Threads :
          /\ call[w].name = "store_concept" /\ call[w].h = "db" /\ pc[w] = "unlock"
          /\ call[t].name = "get_concept" /\ call[t].h = "db2" /\ pc[t] = "unlock"
          /\ handles["db2"] # handles["db"]
          /\ Found(ret[t][1])
          /\ ret[t][1] = get_concept(concepts, call[t].arg)

(***************************************************************************)
(* Properties of the locking                                               *)
(***************************************************************************)
\* C27: no operation takes the Mutex of the store while it holds it: search_all,
\* get_stats and the load loops lock and unlock once per call they make, so a thread
\* that waits for a Mutex holds none; and when a thread that can take a step takes it
\* and a waiting thread gets the Mutex once it stays free, every operation that was
\* started returns.
C27_EveryCallReturns ==
    /\ [](\A t \in Threads : pc[t] \in {"idle", "lock"} => \A c \in Conns : mutex[c] # t)
    /\ \A t \in Threads : (pc[t] # "idle") ~> (pc[t] = "idle")

\* one thread holds the Mutex in the second call of search_all while the other, in
\* the last call of get_stats on the same connection, waits for it
C27_Witness ==
    \E t, w \in Threads :
        /\ call[t].op = "search_all" /\ call[t].name = "find_patterns_limit"
        /\ pc[t] = "exec" /\ mutex[ConnOf(t)] = t
        /\ call[w].op = "get_stats" /\ call[w].name = "count_commands"
        /\ pc[w] = "lock" /\ ConnOf(w) = ConnOf(t)

(***************************************************************************)
(* Properties of the queries that run while a load runs                    *)
(***************************************************************************)
\* the store calls of the load that has been started
StartedSteps == IF pc[Loader] = "idle" THEN <<>> ELSE LoadSteps(call[Loader].arg)

\* the store before the load
BeforeLoad ==
    [concepts |-> {}, concepts_fts |-> <<>>, patterns |-> {}, patterns_fts |-> <<>>,
     errors |-> {}, commands |-> {}]

\* the answer is what the operation returns on the store after the first k store
\* calls of the load, for some k
SeesPrefix(answer) ==
    \E k \in 0..Len(StartedSteps) :
        answer[3] = QueryResult(StoreSteps(BeforeLoad, SubSeq(StartedSteps, 1, k)),
                                answer[2])

\* C28: a query that runs while load_all_from_directory runs returns what it would
\* return on the store after some prefix of the load's store calls: it never holds a
\* later record of the load while an earlier one is missing.
C28_QuerySeesPrefix == response # None => SeesPrefix(response[2])

\* the same for the operations that run one statement
OneStatementSeesPrefix ==
    (response # None /\ response[2][2].name # "search_all") => SeesPrefix(response[2])

(***************************************************************************)
(* Properties of a load that fails                                         *)
(***************************************************************************)
\* the files in the order load_all_from_directory takes them
FilesInOrder ==
    <<"rust_core_concepts.json", "rust_patterns_idioms.json", "rust_toolchain_cargo.json">>

\* the files that exist and cannot be read as JSON
Failing(dir) ==
    {i \in 1..Len(FilesInOrder) :
        exists(dir[FilesInOrder[i]]) /\ ~IsOk(ReadDocument(dir[FilesInOrder[i]]))}

\* the directory with the files from the i-th on taken away
FilesBefore(dir, i) ==
    [name \in FileNames |->
        IF \E j \in 1..(i - 1) : FilesInOrder[j] = name THEN dir[name] ELSE Absent]

ErrorExplained(resp) ==
    /\ resp # None /\ resp[2][1] = "Ok"
    /\ resp[2][2].request.type = "explain_error"

====
